---- MODULE Spec2Model ----
(***************************************************************************)
(* Model of the invoice consolidation run of smartbots-etl:                *)
(* ConsolidateInvoicesUseCase.execute() with its per-file pipeline, the    *)
(* upsert and reconciliation functions, the SQLite tracker's file log and  *)
(* the ledger spreadsheet kept on Drive.  Every collaborator call (Drive,  *)
(* lifecycle manager, tracker, reader/writer, notifier) either returns or  *)
(* raises; the choice is nondeterministic.                                 *)
(***************************************************************************)
EXTENDS Integers, Sequences, FiniteSets, TLC

(***************************************************************************)
(* Bounds of the model.                                                    *)
(***************************************************************************)
MaxFiles == 2
MaxRecords == 2
MaxAmount == 2
MaxLedgerRows == 1
MaxLogRows == 2
MaxFileRecords == 3

None == "None"

\* (name, modifiedTime) pairs Drive may list in the source folder
SourcePairs ==
    { <<"a.xlsx", "t1">>, <<"a.xlsx", "t2">>, <<"b.xlsx", "t1">> }

\* composite keys (invoice_number, reference_number)
Keys == { <<"F-001", "R-001">>, <<"F-005", "R-005">> }

Amounts == 1..MaxAmount

\* Sequences over S of length at most n
RECURSIVE SeqsUpTo(_, _)
SeqsUpTo(S, n) ==
    IF n = 0 THEN { <<>> }
    ELSE LET shorter == SeqsUpTo(S, n - 1)
         IN  shorter \cup { Append(s, x) : s \in { t \in shorter : Len(t) = n - 1 }, x \in S }

(***************************************************************************)
(* Domain: InvoiceRecord.  status keeps its dataclass default NEW: neither *)
(* the extractor, the transformer nor _upsert ever passes another value.   *)
(* aprobado_por stands for the ledger-only fields: the extractor passes "", *)
(* the transformer reads the ledger column.                                *)
(***************************************************************************)
InvoiceRecord(inv, ref, total, src) ==
    [ invoice_number |-> inv, reference_number |-> ref,
      total_amount |-> total, aprobado_por |-> "", source_file |-> src, status |-> "NEW" ]

primary_key(r) == << r.invoice_number, r.reference_number >>

\* records an extractor can return for a source file
SourceRecords == { InvoiceRecord(k[1], k[2], a, "source") : k \in Keys, a \in Amounts }

\* what extractor.extract can find in a source file of at most MaxRecords
\* rows: each row gives a record or a validation error
SourceContents ==
    UNION { { [ records |-> rs, errors |-> n ] : n \in 0..(MaxRecords - Len(rs)) } :
              rs \in SeqsUpTo(SourceRecords, MaxRecords) }

\* rows of the ledger sheet; valid = the row transforms into an InvoiceRecord
LedgerRows ==
    { [ invoice_number |-> k[1], reference_number |-> k[2], total_amount |-> a,
        aprobado_por |-> "ops", valid |-> v ] :
        k \in Keys, a \in Amounts, v \in BOOLEAN }

\* RowTransformer.transform_row on a ledger row
transform_row(row) ==
    [ InvoiceRecord(row.invoice_number, row.reference_number, row.total_amount, "consolidado")
        EXCEPT !.aprobado_por = row.aprobado_por ]

\* _records_to_dataframe + writer.write: one appended sheet row per record
RecordToRow(r) ==
    [ invoice_number |-> r.invoice_number, reference_number |-> r.reference_number,
      total_amount |-> r.total_amount, aprobado_por |-> r.aprobado_por, valid |-> TRUE ]

\* IsValidRow that takes every row to transform
IsValidRow_always(row) == row.valid \/ ~row.valid

IsValidRow(row) == row.valid

\* _dataframe_to_records: rows that raise in transform_row are skipped
RECURSIVE dataframe_to_records(_)
dataframe_to_records(df) ==
    IF df = <<>> THEN <<>>
    ELSE (IF IsValidRow(Head(df)) THEN << transform_row(Head(df)) >> ELSE <<>>)
         \o dataframe_to_records(Tail(df))

RECURSIVE records_to_dataframe(_)
records_to_dataframe(records) ==
    IF records = <<>> THEN <<>>
    ELSE << RecordToRow(Head(records)) >> \o records_to_dataframe(Tail(records))

KeysOf(records) == { primary_key(records[i]) : i \in 1..Len(records) }

RECURSIVE SumTotals(_)
SumTotals(records) ==
    IF records = <<>> THEN 0 ELSE Head(records).total_amount + SumTotals(Tail(records))

(***************************************************************************)
(* _upsert.  A Python dict is modelled as the sequence of its values in    *)
(* insertion order, one per key.                                           *)
(***************************************************************************)
DictHas(m, pk) == \E i \in 1..Len(m) : primary_key(m[i]) = pk

\* m[pk] = r : replaces in place when the key exists, appends otherwise
DictPut(m, r) ==
    IF DictHas(m, primary_key(r))
    THEN [ i \in 1..Len(m) |-> IF primary_key(m[i]) = primary_key(r) THEN r ELSE m[i] ]
    ELSE Append(m, r)

\* existing_map = {r.primary_key: r for r in existing}
RECURSIVE DictOf(_, _)
DictOf(m, records) ==
    IF records = <<>> THEN m ELSE DictOf(DictPut(m, Head(records)), Tail(records))

UpsertResult(ins, upd, unch, all) ==
    [ inserted |-> ins, updated |-> upd, unchanged |-> unch, all_records |-> all ]

\* the loop over incoming: an existing key is skipped, a new key is inserted
RECURSIVE UpsertLoop(_, _, _)
UpsertLoop(m, inserted, incoming) ==
    IF incoming = <<>> THEN UpsertResult(inserted, 0, 0, m)
    ELSE IF DictHas(m, primary_key(Head(incoming)))
         THEN UpsertLoop(m, inserted, Tail(incoming))
         ELSE UpsertLoop(Append(m, Head(incoming)), inserted + 1, Tail(incoming))

\* upsert that lets an incoming record replace the ledger record of its key
upsert_replace(existing, incoming) ==
    UpsertResult(Len(incoming), 0, 0, DictOf(DictOf(<<>>, existing), incoming))

\* upsert whose map starts empty instead of holding the ledger snapshot
upsert_incoming_only(existing, incoming) == UpsertLoop(<<>>, 0, incoming)

upsert(existing, incoming) == UpsertLoop(DictOf(<<>>, existing), 0, incoming)

(***************************************************************************)
(* _reconcile                                                              *)
(***************************************************************************)
Abs(x) == IF x < 0 THEN -x ELSE x

ReconcileMissing(source_records, result) ==
    KeysOf(source_records) \ KeysOf(result.all_records)

ResultSubset(source_records, result) ==
    LET keep(r) == primary_key(r) \in KeysOf(source_records)
    IN  SelectSeq(result.all_records, keep)

ReconcileVariance(source_records, result) ==
    Abs(SumTotals(source_records) - SumTotals(ResultSubset(source_records, result)))

NoException == [ type |-> None, missing |-> 0, keys |-> 0, amount_variance |-> 0 ]

\* ReconciliationError(data_loss_pct = missing / keys * 100, amount_variance)
ReconciliationError(missing, keys, variance) ==
    [ type |-> "ReconciliationError", missing |-> missing, keys |-> keys,
      amount_variance |-> variance ]

PlainException(t) == [ type |-> t, missing |-> 0, keys |-> 0, amount_variance |-> 0 ]

\* reconcile_raises with the tolerance test >= 1 in place of > 1
reconcile_raises_ge(source_records, result) ==
    IF ReconcileMissing(source_records, result) # {}
    THEN ReconciliationError(Cardinality(ReconcileMissing(source_records, result)),
                             Cardinality(KeysOf(source_records)), 0)
    ELSE IF ReconcileVariance(source_records, result) >= 1
         THEN ReconciliationError(0, 0, ReconcileVariance(source_records, result))
         ELSE NoException

\* the exception _reconcile raises, NoException when it returns
reconcile_raises(source_records, result) ==
    IF ReconcileMissing(source_records, result) # {}
    THEN ReconciliationError(Cardinality(ReconcileMissing(source_records, result)),
                             Cardinality(KeysOf(source_records)), 0)
    ELSE IF ReconcileVariance(source_records, result) > 1
         THEN ReconciliationError(0, 0, ReconcileVariance(source_records, result))
         ELSE NoException

\* the report after _reconcile returned
reconcile_report(rep, source_records, result) ==
    [ rep EXCEPT !.source_total_amount = @ + SumTotals(source_records),
                 !.output_total_amount = @ + SumTotals(ResultSubset(source_records, result)) ]

(***************************************************************************)
(* State                                                                   *)
(***************************************************************************)
VARIABLES
    pc,                    \* position in execute() / _process_file()
    report,                \* ExecutionReport
    consolidated_file_id,  \* local of execute()
    backup_file_id,        \* local of execute()
    source_files,          \* result of drive.list_source_files
    idx,                   \* index of the file the for loop is at
    ledger,                \* rows of the consolidated sheet on Drive
    local_consolidated,    \* rows of downloads/consolidado.xlsx
    backup_copy,           \* rows of the pre-run backup copy, empty before it exists
    file_loc,              \* Drive folder of each listed file
    run_status,            \* execution_runs.status of this run
    finish_calls,          \* statuses passed to tracker.finish_run
    file_log,              \* tracker table file_log
    record_log,            \* tracker table record_log
    notifications,         \* statuses in the subjects passed to notifier.send
    file_log_id,           \* local of _process_file, 0 is None
    source_records,        \* local of _process_file
    row_errors,            \* number of extractor.validation_errors
    consolidated_records,  \* ledger snapshot parsed by _merge_and_upsert
    upsert_result,         \* local of _process_file
    exc,                   \* exception being handled
    outcome,               \* history: what _process_file did for each listed file
    run_exc,               \* history: the except block of execute() was entered
    backup_ok,             \* history: lifecycle.backup_consolidated returned
    restore_calls,         \* history: calls of drive.restore_backup
    send_raised,           \* history: notifier.send raised
    args,                  \* arguments of the function a function-level check calls
    ret                    \* what that function returned or raised

vars == << pc, report, consolidated_file_id, backup_file_id, source_files, idx, ledger,
           local_consolidated, backup_copy, file_loc, run_status, finish_calls, file_log,
           record_log, notifications, file_log_id, source_records, row_errors,
           consolidated_records, upsert_result, exc, outcome, run_exc, backup_ok,
           restore_calls, send_raised, args, ret >>

call_vars == << args, ret >>
tracker_vars == << run_status, finish_calls, file_log, record_log >>
drive_vars == << ledger, local_consolidated, backup_copy, file_loc >>
file_locals == << file_log_id, source_records, row_errors, consolidated_records,
                  upsert_result, exc >>
history_vars == << outcome, run_exc, backup_ok, restore_calls >>

\* ExecutionReport(run_id)
NewReport ==
    [ status |-> "PENDING", total_files |-> 0, files_with_errors |-> <<>>,
      rollback_executed |-> FALSE, source_row_count |-> 0, valid_row_count |-> 0,
      inserted_count |-> 0, updated_count |-> 0, unchanged_count |-> 0,
      source_total_amount |-> 0, output_total_amount |-> 0, validation_errors |-> 0 ]

EmptyResult == UpsertResult(0, 0, 0, <<>>)

SourceFile(p) == [ name |-> p[1], modified_time |-> p[2] ]

FileLists == SeqsUpTo({ SourceFile(p) : p \in SourcePairs }, MaxFiles)

FileLogEntry(run, f, st) ==
    [ run_uuid |-> run, file_name |-> f.name, file_modified_time |-> f.modified_time,
      status |-> st ]

\* file_log left by earlier runs: empty, or one file of an earlier run COMPLETED
PriorFileLogs ==
    { <<>>, << FileLogEntry("prior", SourceFile(<<"a.xlsx", "t1">>), "COMPLETED") >> }

\* the ledger before the run: at most MaxLedgerRows rows, of the first invoice
PreRunLedgers ==
    SeqsUpTo({ w \in LedgerRows : w.invoice_number = "F-001" }, MaxLedgerRows)

\* is_file_processed with a status literal no row ever has
is_file_processed_wrong_status(log, name, modified_time) ==
    \E i \in 1..Len(log) :
        /\ log[i].file_name = name
        /\ log[i].file_modified_time = modified_time
        /\ log[i].status = "PROCESSED"

\* is_file_processed that leaves file_modified_time out of the WHERE clause
is_file_processed_any_time(log, name, modified_time) ==
    \E i \in 1..Len(log) :
        /\ log[i].file_name = name
        /\ log[i].status = "COMPLETED"

\* SqliteTracker.is_file_processed
is_file_processed(log, name, modified_time) ==
    \E i \in 1..Len(log) :
        /\ log[i].file_name = name
        /\ log[i].file_modified_time = modified_time
        /\ log[i].status = "COMPLETED"

\* SqliteTracker.log_file_finish: UPDATE file_log SET status=? WHERE id=?
log_file_finish(log, id, st) == [ log EXCEPT ![id].status = st ]

Init ==
    /\ pc = "clean"
    /\ report = NewReport
    /\ consolidated_file_id = None
    /\ backup_file_id = None
    /\ source_files = <<>>
    /\ idx = 1
    /\ ledger \in PreRunLedgers
    /\ local_consolidated = <<>>
    /\ backup_copy = <<>>
    /\ file_loc = <<>>
    /\ run_status = None
    /\ finish_calls = <<>>
    /\ file_log \in PriorFileLogs
    /\ record_log = <<>>
    /\ notifications = <<>>
    /\ file_log_id = 0
    /\ source_records = <<>>
    /\ row_errors = 0
    /\ consolidated_records = <<>>
    /\ upsert_result = EmptyResult
    /\ exc = NoException
    /\ outcome = <<>>
    /\ run_exc = FALSE
    /\ backup_ok = FALSE
    /\ restore_calls = 0
    /\ send_raised = FALSE
    /\ args = <<>>
    /\ ret = None

(***************************************************************************)
(* execute(): run-level steps                                              *)
(***************************************************************************)
\* a collaborator call returns ("ok") or raises ("raise")
Outcomes == { "ok", "raise" }

\* _clean_downloads_folder(), called before the try block: an exception of
\* Path.iterdir / Path.mkdir / config.downloads leaves execute() at once
CleanDownloads ==
    /\ pc = "clean"
    /\ \E o \in Outcomes : pc' = IF o = "ok" THEN "start_run" ELSE "raised"
    /\ UNCHANGED << report, consolidated_file_id, backup_file_id, source_files, idx,
                    drive_vars, tracker_vars, notifications, file_locals, history_vars >>
    /\ UNCHANGED << call_vars, send_raised >>

\* StartRun that goes on without the run being recorded
StartRun_not_recorded ==
    /\ pc = "start_run"
    /\ \E o \in Outcomes :
          IF o = "ok"
          THEN /\ run_status' = run_status
               /\ pc' = "resolve"
          ELSE /\ run_status' = run_status
               /\ pc' = "except"
    /\ UNCHANGED << report, consolidated_file_id, backup_file_id, source_files, idx,
                    drive_vars, finish_calls, file_log, record_log, notifications,
                    file_locals, history_vars >>
    /\ UNCHANGED << call_vars, send_raised >>

\* tracker.start_run(run_id)
StartRun ==
    /\ pc = "start_run"
    /\ \E o \in Outcomes :
          IF o = "ok"
          THEN /\ run_status' = "RUNNING"
               /\ pc' = "resolve"
          ELSE /\ run_status' = run_status
               /\ pc' = "except"
    /\ UNCHANGED << report, consolidated_file_id, backup_file_id, source_files, idx,
                    drive_vars, finish_calls, file_log, record_log, notifications,
                    file_locals, history_vars >>
    /\ UNCHANGED << call_vars, send_raised >>

\* path_resolver.ensure_path (twice) and drive.find_file_in_folder; a missing
\* consolidated file raises FileNotFoundError
ResolveAndFind ==
    /\ pc = "resolve"
    /\ \E o \in { "ok", "raise", "not_found" } :
          IF o = "ok"
          THEN /\ consolidated_file_id' = "consolidated_file_id"
               /\ pc' = "list"
          ELSE /\ consolidated_file_id' = consolidated_file_id
               /\ pc' = "except"
    /\ UNCHANGED << report, backup_file_id, source_files, idx, drive_vars, tracker_vars,
                    notifications, file_locals, history_vars >>
    /\ UNCHANGED << call_vars, send_raised >>

\* ListSourceFiles without the return after NO_FILES
ListSourceFiles_no_return ==
    /\ pc = "list"
    /\ \E o \in Outcomes :
          IF o = "ok"
          THEN \E fs \in FileLists :
                 /\ source_files' = fs
                 /\ file_loc' = [ i \in 1..Len(fs) |-> "source" ]
                 /\ outcome' = [ i \in 1..Len(fs) |-> "pending" ]
                 /\ IF fs = <<>>
                    THEN /\ report' = [ report EXCEPT !.status = "NO_FILES" ]
                         /\ pc' = "backup"
                    ELSE /\ report' = [ report EXCEPT !.total_files = Len(fs) ]
                         /\ pc' = "backup"
          ELSE /\ pc' = "except"
               /\ UNCHANGED << source_files, file_loc, outcome, report >>
    /\ UNCHANGED << consolidated_file_id, backup_file_id, idx, ledger, local_consolidated,
                    backup_copy, tracker_vars, notifications, file_locals, run_exc,
                    backup_ok, restore_calls >>
    /\ UNCHANGED << call_vars, send_raised >>

\* drive.list_source_files; an empty list returns through the finally block
ListSourceFiles ==
    /\ pc = "list"
    /\ \E o \in Outcomes :
          IF o = "ok"
          THEN \E fs \in FileLists :
                 /\ source_files' = fs
                 /\ file_loc' = [ i \in 1..Len(fs) |-> "source" ]
                 /\ outcome' = [ i \in 1..Len(fs) |-> "pending" ]
                 /\ IF fs = <<>>
                    THEN /\ report' = [ report EXCEPT !.status = "NO_FILES" ]
                         /\ pc' = "finish"
                    ELSE /\ report' = [ report EXCEPT !.total_files = Len(fs) ]
                         /\ pc' = "backup"
          ELSE /\ pc' = "except"
               /\ UNCHANGED << source_files, file_loc, outcome, report >>
    /\ UNCHANGED << consolidated_file_id, backup_file_id, idx, ledger, local_consolidated,
                    backup_copy, tracker_vars, notifications, file_locals, run_exc,
                    backup_ok, restore_calls >>
    /\ UNCHANGED << call_vars, send_raised >>

\* BackupConsolidated with the backup's exception swallowed
BackupConsolidated_swallow ==
    /\ pc = "backup"
    /\ \E o \in Outcomes :
          IF o = "ok"
          THEN /\ backup_copy' = ledger
               /\ backup_ok' = TRUE
          ELSE UNCHANGED << backup_copy, backup_ok >>
    /\ pc' = "loop"
    /\ UNCHANGED << report, consolidated_file_id, backup_file_id, source_files, idx, ledger,
                    local_consolidated, file_loc, tracker_vars, notifications, file_locals,
                    outcome, run_exc, restore_calls >>
    /\ UNCHANGED << call_vars, send_raised >>

\* lifecycle.init_backup_folder + lifecycle.backup_consolidated: the copy's id
\* stays inside the lifecycle manager, execute() receives the folder id
BackupConsolidated ==
    /\ pc = "backup"
    /\ \E o \in Outcomes :
          IF o = "ok"
          THEN /\ backup_copy' = ledger
               /\ backup_ok' = TRUE
               /\ pc' = "loop"
          ELSE /\ UNCHANGED << backup_copy, backup_ok >>
               /\ pc' = "except"
    /\ UNCHANGED << report, consolidated_file_id, backup_file_id, source_files, idx, ledger,
                    local_consolidated, file_loc, tracker_vars, notifications, file_locals,
                    outcome, run_exc, restore_calls >>
    /\ UNCHANGED << call_vars, send_raised >>

\* DerivedStatus with <= in place of <
DerivedStatus_le(rep, files) ==
    IF rep.files_with_errors = <<>> THEN "SUCCESS"
    ELSE IF Len(rep.files_with_errors) <= Len(files) THEN "PARTIAL"
    ELSE "ERROR"

\* final status of a run whose loop ended
DerivedStatus(rep, files) ==
    IF rep.files_with_errors = <<>> THEN "SUCCESS"
    ELSE IF Len(rep.files_with_errors) < Len(files) THEN "PARTIAL"
    ELSE "ERROR"

\* head of "for source_file in source_files", then the status derivation
LoopHead ==
    /\ pc = "loop"
    /\ IF idx <= Len(source_files)
       THEN /\ pc' = "pf_check"
            /\ report' = report
       ELSE /\ pc' = "finish"
            /\ report' = [ report EXCEPT !.status = DerivedStatus(report, source_files) ]
    /\ file_log_id' = 0
    /\ UNCHANGED << consolidated_file_id, backup_file_id, source_files, idx, drive_vars,
                    tracker_vars, notifications, source_records, row_errors,
                    consolidated_records, upsert_result, exc, history_vars >>
    /\ UNCHANGED << call_vars, send_raised >>

\* except Exception: status ERROR, restore only when both ids are set
RunExcept ==
    /\ pc = "except"
    /\ run_exc' = TRUE
    /\ pc' = "finish"
    /\ IF backup_file_id # None /\ consolidated_file_id # None
       THEN \E o \in Outcomes :
              /\ restore_calls' = restore_calls + 1
              /\ IF o = "ok"
                 THEN /\ ledger' = backup_copy
                      /\ report' = [ report EXCEPT !.status = "ERROR",
                                                   !.rollback_executed = TRUE ]
                 ELSE /\ ledger' = ledger
                      /\ report' = [ report EXCEPT !.status = "ERROR" ]
       ELSE /\ report' = [ report EXCEPT !.status = "ERROR" ]
            /\ UNCHANGED << ledger, restore_calls >>
    /\ UNCHANGED << consolidated_file_id, backup_file_id, source_files, idx,
                    local_consolidated, backup_copy, file_loc, tracker_vars, notifications,
                    file_locals, outcome, backup_ok >>
    /\ UNCHANGED << call_vars, send_raised >>

\* Finish with the exception of notifier.send left uncaught
Finish_send_uncaught ==
    /\ pc = "finish"
    /\ finish_calls' = Append(finish_calls, report.status)
    /\ \E o \in Outcomes :
          run_status' = IF o = "ok" THEN report.status ELSE run_status
    /\ notifications' = Append(notifications, report.status)
    /\ \E o \in Outcomes :
          /\ send_raised' = (o = "raise")
          /\ pc' = IF o = "raise" THEN "raised" ELSE "done"
    /\ UNCHANGED << report, consolidated_file_id, backup_file_id, source_files, idx,
                    drive_vars, file_log, record_log, file_locals, history_vars >>
    /\ UNCHANGED call_vars

\* finally: _finish.  tracker.finish_run is called inside try/except, then
\* _send_notification calls notifier.send inside try/except; execute() returns
Finish ==
    /\ pc = "finish"
    /\ finish_calls' = Append(finish_calls, report.status)
    /\ \E o \in Outcomes :
          run_status' = IF o = "ok" THEN report.status ELSE run_status
    /\ notifications' = Append(notifications, report.status)
    /\ \E o \in Outcomes : send_raised' = (o = "raise")
    /\ pc' = "done"
    /\ UNCHANGED << report, consolidated_file_id, backup_file_id, source_files, idx,
                    drive_vars, file_log, record_log, file_locals, history_vars >>
    /\ UNCHANGED call_vars

(***************************************************************************)
(* _process_file(): per-file steps                                         *)
(***************************************************************************)
CurrentFile == source_files[idx]

\* an exception raised inside the try block of _process_file
Raise(e) ==
    /\ exc' = e
    /\ pc' = "pf_except"

\* _process_file returns and its locals go out of scope; the for loop goes on
Return(result) ==
    /\ outcome' = [ outcome EXCEPT ![idx] = result ]
    /\ idx' = idx + 1
    /\ pc' = "loop"
    /\ file_log_id' = 0
    /\ source_records' = <<>>
    /\ row_errors' = 0
    /\ consolidated_records' = <<>>
    /\ upsert_result' = EmptyResult
    /\ exc' = NoException

\* IsFileAlreadyProcessed that counts a skipped file among the failed files
IsFileAlreadyProcessed_skip_fails ==
    /\ pc = "pf_check"
    /\ \E o \in Outcomes :
          IF o = "raise"
          THEN /\ Raise(PlainException("Exception"))
               /\ report' = report
               /\ UNCHANGED << outcome, idx, file_log_id, source_records, row_errors,
                               consolidated_records, upsert_result >>
          ELSE IF is_file_processed(file_log, CurrentFile.name, CurrentFile.modified_time)
               THEN /\ Return("skipped")
                    /\ report' = [ report EXCEPT
                                     !.files_with_errors = Append(@, CurrentFile.name) ]
               ELSE /\ pc' = "pf_start"
                    /\ report' = report
                    /\ UNCHANGED << outcome, idx, file_locals >>
    /\ UNCHANGED << consolidated_file_id, backup_file_id, source_files, drive_vars,
                    tracker_vars, notifications, run_exc, backup_ok, restore_calls >>
    /\ UNCHANGED << call_vars, send_raised >>

\* 1. _is_file_already_processed: tracker.is_file_processed(name, modified_time)
IsFileAlreadyProcessed ==
    /\ pc = "pf_check"
    /\ \E o \in Outcomes :
          IF o = "raise"
          THEN /\ Raise(PlainException("Exception"))
               /\ UNCHANGED << outcome, idx, file_log_id, source_records, row_errors,
                               consolidated_records, upsert_result >>
          ELSE IF is_file_processed(file_log, CurrentFile.name, CurrentFile.modified_time)
               THEN Return("skipped")
               ELSE /\ pc' = "pf_start"
                    /\ UNCHANGED << outcome, idx, file_locals >>
    /\ UNCHANGED << report, consolidated_file_id, backup_file_id, source_files, drive_vars,
                    tracker_vars, notifications, run_exc, backup_ok, restore_calls >>
    /\ UNCHANGED << call_vars, send_raised >>

\* 2. _initiate_file_processing: tracker.log_file_start, then
\* lifecycle.move_to_in_process; file_log_id is bound only when both returned
InitiateFileProcessing ==
    /\ pc = "pf_start"
    /\ \E o \in { "ok", "raise_log_file_start", "raise_move_to_in_process" } :
          CASE o = "raise_log_file_start" ->
                 /\ Raise(PlainException("Exception"))
                 /\ UNCHANGED << file_log, file_log_id, file_loc >>
            [] o = "raise_move_to_in_process" ->
                 /\ file_log' = Append(file_log, FileLogEntry("run", CurrentFile, "PROCESSING"))
                 /\ Raise(PlainException("Exception"))
                 /\ UNCHANGED << file_log_id, file_loc >>
            [] o = "ok" ->
                 /\ file_log' = Append(file_log, FileLogEntry("run", CurrentFile, "PROCESSING"))
                 /\ file_log_id' = Len(file_log) + 1
                 /\ file_loc' = [ file_loc EXCEPT ![idx] = "in_process" ]
                 /\ pc' = "pf_extract"
                 /\ exc' = exc
    /\ UNCHANGED << report, consolidated_file_id, backup_file_id, source_files, idx, ledger,
                    local_consolidated, backup_copy, run_status, finish_calls, record_log,
                    notifications, source_records, row_errors, consolidated_records,
                    upsert_result, history_vars >>
    /\ UNCHANGED << call_vars, send_raised >>

\* 3. _download_and_extract_source: drive.download_file, extractor.extract
DownloadAndExtractSource ==
    /\ pc = "pf_extract"
    /\ \E o \in { "ok", "raise", "raise_schema" } :
          CASE o = "raise" ->
                 /\ Raise(PlainException("Exception"))
                 /\ UNCHANGED << source_records, row_errors >>
            [] o = "raise_schema" ->
                 /\ Raise(PlainException("SchemaValidationError"))
                 /\ UNCHANGED << source_records, row_errors >>
            [] o = "ok" ->
                 /\ \E content \in SourceContents :
                        /\ source_records' = content.records
                        /\ row_errors' = content.errors
                 /\ pc' = "pf_validate"
                 /\ exc' = exc
    /\ UNCHANGED << report, consolidated_file_id, backup_file_id, source_files, idx,
                    drive_vars, tracker_vars, notifications, file_log_id,
                    consolidated_records, upsert_result, history_vars >>
    /\ UNCHANGED << call_vars, send_raised >>

\* 4. _validate_source_records: tracker.log_file_schema, report row counters
ValidateSourceRecords ==
    /\ pc = "pf_validate"
    /\ \E o \in Outcomes :
          IF o = "raise"
          THEN /\ Raise(PlainException("Exception"))
               /\ report' = report
          ELSE /\ report' = [ report EXCEPT
                                !.source_row_count = @ + Len(source_records),
                                !.valid_row_count = @ + Len(source_records),
                                !.validation_errors = @ + row_errors ]
               /\ pc' = "pf_download"
               /\ exc' = exc
    /\ UNCHANGED << consolidated_file_id, backup_file_id, source_files, idx, drive_vars,
                    tracker_vars, notifications, file_log_id, source_records, row_errors,
                    consolidated_records, upsert_result, history_vars >>
    /\ UNCHANGED << call_vars, send_raised >>

\* 5. _download_consolidated: drive.download_file overwrites the local copy,
\* reader.read returns its rows
DownloadConsolidated ==
    /\ pc = "pf_download"
    /\ \E o \in Outcomes :
          IF o = "raise"
          THEN /\ Raise(PlainException("Exception"))
               /\ local_consolidated' = local_consolidated
          ELSE /\ local_consolidated' = ledger
               /\ pc' = "pf_merge"
               /\ exc' = exc
    /\ UNCHANGED << report, consolidated_file_id, backup_file_id, source_files, idx, ledger,
                    backup_copy, file_loc, tracker_vars, notifications, file_log_id,
                    source_records, row_errors, consolidated_records, upsert_result,
                    history_vars >>
    /\ UNCHANGED << call_vars, send_raised >>

\* _log_upsert_records: one record_log row per incoming record, the action
\* taken from the status of the result record that has the same key
RecordAction(status) ==
    CASE status = "NEW" -> "INSERT"
      [] status = "UPDATED" -> "UPDATE"
      [] status = "UNCHANGED" -> "UNCHANGED"
      [] OTHER -> "INSERT"

MatchedStatus(result, r) ==
    IF DictHas(result.all_records, primary_key(r))
    THEN (CHOOSE m \in { result.all_records[i] : i \in 1..Len(result.all_records) } :
             primary_key(m) = primary_key(r)).status
    ELSE "NEW"

UpsertBatch(flid, incoming, result) ==
    [ i \in 1..Len(incoming) |->
        [ file_log_id |-> flid, invoice_number |-> incoming[i].invoice_number,
          reference_number |-> incoming[i].reference_number,
          action |-> RecordAction(MatchedStatus(result, incoming[i])) ] ]

\* ErrorBatch that logs one row for the file instead of one per row error
ErrorBatch_single(flid, n) ==
    [ i \in 1..(IF n > 0 THEN 1 ELSE 0) |->
        [ file_log_id |-> flid, invoice_number |-> None, reference_number |-> None,
          action |-> "VALIDATION_ERROR" ] ]

\* the VALIDATION_ERROR rows _merge_and_upsert logs for row_errors
ErrorBatch(flid, n) ==
    [ i \in 1..n |->
        [ file_log_id |-> flid, invoice_number |-> None, reference_number |-> None,
          action |-> "VALIDATION_ERROR" ] ]

\* 6. _merge_and_upsert: _dataframe_to_records, _upsert, _log_upsert_records,
\* then the batch of row errors; each tracker.log_records_batch may raise
MergeAndUpsert ==
    /\ pc = "pf_merge"
    /\ LET existing == dataframe_to_records(local_consolidated)
           result == upsert(existing, source_records)
           batch == UpsertBatch(file_log_id, source_records, result)
           errors == ErrorBatch(file_log_id, row_errors)
       IN  \E o \in { "ok", "raise_upsert_batch", "raise_error_batch" } :
             CASE o = "raise_upsert_batch" /\ batch # <<>> ->
                    /\ Raise(PlainException("Exception"))
                    /\ UNCHANGED << record_log, consolidated_records, upsert_result >>
               [] o = "raise_error_batch" /\ errors # <<>> ->
                    /\ record_log' = record_log \o batch
                    /\ Raise(PlainException("Exception"))
                    /\ UNCHANGED << consolidated_records, upsert_result >>
               [] OTHER ->
                    /\ record_log' = record_log \o batch \o errors
                    /\ consolidated_records' = existing
                    /\ upsert_result' = result
                    /\ pc' = "pf_reconcile"
                    /\ exc' = exc
    /\ UNCHANGED << report, consolidated_file_id, backup_file_id, source_files, idx,
                    drive_vars, run_status, finish_calls, file_log, notifications,
                    file_log_id, source_records, row_errors, history_vars >>
    /\ UNCHANGED << call_vars, send_raised >>

\* 7a. _reconcile_and_write, first statement: _reconcile
Reconcile ==
    /\ pc = "pf_reconcile"
    /\ IF reconcile_raises(source_records, upsert_result) # NoException
       THEN /\ Raise(reconcile_raises(source_records, upsert_result))
            /\ report' = report
       ELSE /\ report' = reconcile_report(report, source_records, upsert_result)
            /\ pc' = "pf_write"
            /\ exc' = exc
    /\ UNCHANGED << consolidated_file_id, backup_file_id, source_files, idx, drive_vars,
                    tracker_vars, notifications, file_log_id, source_records, row_errors,
                    consolidated_records, upsert_result, history_vars >>
    /\ UNCHANGED << call_vars, send_raised >>

IsNew(r) == r.status = "NEW"

\* new_records = [r for r in upsert_result.all_records if r.status == NEW]
new_records(result) == SelectSeq(result.all_records, IsNew)

\* 7b. _reconcile_and_write, rest: writer.write appends the rows to the local
\* copy, drive.update_file uploads it, then the report counters
WriteBack ==
    /\ pc = "pf_write"
    /\ LET df_inserts == records_to_dataframe(new_records(upsert_result))
           counted == [ report EXCEPT !.inserted_count = @ + upsert_result.inserted,
                                      !.updated_count = @ + upsert_result.updated,
                                      !.unchanged_count = @ + upsert_result.unchanged ]
       IN  \E o \in { "ok", "raise_write", "raise_update_file" } :
             CASE o = "raise_write" /\ df_inserts # <<>> ->
                    /\ Raise(PlainException("Exception"))
                    /\ UNCHANGED << local_consolidated, ledger, report >>
               [] o = "raise_update_file" /\ df_inserts # <<>> ->
                    /\ local_consolidated' = local_consolidated \o df_inserts
                    /\ Raise(PlainException("Exception"))
                    /\ UNCHANGED << ledger, report >>
               [] OTHER ->
                    /\ local_consolidated' = local_consolidated \o df_inserts
                    /\ ledger' = IF df_inserts # <<>>
                                 THEN local_consolidated \o df_inserts ELSE ledger
                    /\ report' = counted
                    /\ pc' = "pf_finalize"
                    /\ exc' = exc
    /\ UNCHANGED << consolidated_file_id, backup_file_id, source_files, idx, backup_copy,
                    file_loc, tracker_vars, notifications, file_log_id, source_records,
                    row_errors, consolidated_records, upsert_result, history_vars >>
    /\ UNCHANGED << call_vars, send_raised >>

\* FinalizeFileProcessing with COMPLETED logged before the file is archived
FinalizeFileProcessing_log_first ==
    /\ pc = "pf_finalize"
    /\ \E o \in { "ok", "raise_move_to_backup", "raise_log_file_finish" } :
          CASE o = "raise_log_file_finish" ->
                 /\ Raise(PlainException("Exception"))
                 /\ UNCHANGED << file_loc, file_log, outcome, idx, file_log_id,
                                 source_records, row_errors, consolidated_records,
                                 upsert_result >>
            [] o = "raise_move_to_backup" ->
                 /\ file_log' = log_file_finish(file_log, file_log_id, "COMPLETED")
                 /\ Raise(PlainException("Exception"))
                 /\ UNCHANGED << file_loc, outcome, idx, file_log_id, source_records,
                                 row_errors, consolidated_records, upsert_result >>
            [] o = "ok" ->
                 /\ file_loc' = [ file_loc EXCEPT ![idx] = "backup" ]
                 /\ file_log' = log_file_finish(file_log, file_log_id, "COMPLETED")
                 /\ Return("completed")
    /\ UNCHANGED << report, consolidated_file_id, backup_file_id, source_files, ledger,
                    local_consolidated, backup_copy, run_status, finish_calls, record_log,
                    notifications, run_exc, backup_ok, restore_calls >>
    /\ UNCHANGED << call_vars, send_raised >>

\* 8. _finalize_file_processing: lifecycle.move_to_backup, then
\* tracker.log_file_finish(COMPLETED)
FinalizeFileProcessing ==
    /\ pc = "pf_finalize"
    /\ \E o \in { "ok", "raise_move_to_backup", "raise_log_file_finish" } :
          CASE o = "raise_move_to_backup" ->
                 /\ Raise(PlainException("Exception"))
                 /\ UNCHANGED << file_loc, file_log, outcome, idx, file_log_id,
                                 source_records, row_errors, consolidated_records,
                                 upsert_result >>
            [] o = "raise_log_file_finish" ->
                 /\ file_loc' = [ file_loc EXCEPT ![idx] = "backup" ]
                 /\ Raise(PlainException("Exception"))
                 /\ UNCHANGED << file_log, outcome, idx, file_log_id, source_records,
                                 row_errors, consolidated_records, upsert_result >>
            [] o = "ok" ->
                 /\ file_loc' = [ file_loc EXCEPT ![idx] = "backup" ]
                 /\ file_log' = log_file_finish(file_log, file_log_id, "COMPLETED")
                 /\ Return("completed")
    /\ UNCHANGED << report, consolidated_file_id, backup_file_id, source_files, ledger,
                    local_consolidated, backup_copy, run_status, finish_calls, record_log,
                    notifications, run_exc, backup_ok, restore_calls >>
    /\ UNCHANGED << call_vars, send_raised >>

\* status _process_file logs for the exception it caught
ErrorStatus(e) == IF e.type = "SchemaValidationError" THEN "SCHEMA_ERROR" ELSE "ERROR"

\* HandleFileError whose SchemaValidationError is also caught as Exception
HandleFileError_append_twice ==
    /\ pc = "pf_except"
    /\ report' = [ report EXCEPT
                     !.files_with_errors =
                         IF exc.type = "SchemaValidationError"
                         THEN Append(Append(@, CurrentFile.name), CurrentFile.name)
                         ELSE Append(@, CurrentFile.name),
                     !.validation_errors =
                         IF exc.type = "SchemaValidationError" THEN @ + 1 ELSE @ ]
    /\ IF file_log_id # 0
       THEN \E o \in Outcomes :
              IF o = "ok"
              THEN /\ file_log' = log_file_finish(file_log, file_log_id, ErrorStatus(exc))
                   /\ Return("failed")
              ELSE /\ file_log' = file_log
                   /\ outcome' = [ outcome EXCEPT ![idx] = "escaped" ]
                   /\ pc' = "except"
                   /\ idx' = idx
                   /\ file_log_id' = 0
                   /\ source_records' = <<>>
                   /\ row_errors' = 0
                   /\ consolidated_records' = <<>>
                   /\ upsert_result' = EmptyResult
                   /\ exc' = NoException
       ELSE /\ file_log' = file_log
            /\ Return("failed")
    /\ UNCHANGED << consolidated_file_id, backup_file_id, source_files, drive_vars,
                    run_status, finish_calls, record_log, notifications, run_exc, backup_ok,
                    restore_calls >>
    /\ UNCHANGED << call_vars, send_raised >>

\* the except clauses of _process_file: SchemaValidationError is logged
\* SCHEMA_ERROR, any other exception ERROR; tracker.log_file_finish is called
\* outside any try, so its exception leaves _process_file
HandleFileError ==
    /\ pc = "pf_except"
    /\ report' = [ report EXCEPT
                     !.files_with_errors = Append(@, CurrentFile.name),
                     !.validation_errors =
                         IF exc.type = "SchemaValidationError" THEN @ + 1 ELSE @ ]
    /\ IF file_log_id # 0
       THEN \E o \in Outcomes :
              IF o = "ok"
              THEN /\ file_log' = log_file_finish(file_log, file_log_id, ErrorStatus(exc))
                   /\ Return("failed")
              ELSE /\ file_log' = file_log
                   /\ outcome' = [ outcome EXCEPT ![idx] = "escaped" ]
                   /\ pc' = "except"
                   /\ idx' = idx
                   /\ file_log_id' = 0
                   /\ source_records' = <<>>
                   /\ row_errors' = 0
                   /\ consolidated_records' = <<>>
                   /\ upsert_result' = EmptyResult
                   /\ exc' = NoException
       ELSE /\ file_log' = file_log
            /\ Return("failed")
    /\ UNCHANGED << consolidated_file_id, backup_file_id, source_files, drive_vars,
                    run_status, finish_calls, record_log, notifications, run_exc, backup_ok,
                    restore_calls >>
    /\ UNCHANGED << call_vars, send_raised >>

Next ==
    \/ CleanDownloads
    \/ StartRun
    \/ ResolveAndFind
    \/ ListSourceFiles
    \/ BackupConsolidated
    \/ LoopHead
    \/ IsFileAlreadyProcessed
    \/ InitiateFileProcessing
    \/ DownloadAndExtractSource
    \/ ValidateSourceRecords
    \/ DownloadConsolidated
    \/ MergeAndUpsert
    \/ Reconcile
    \/ WriteBack
    \/ FinalizeFileProcessing
    \/ HandleFileError
    \/ RunExcept
    \/ Finish

Spec == Init /\ [][Next]_vars

(***************************************************************************)
(* _upsert and _reconcile as functions: the arguments are drawn from       *)
(* bounded sets, the result set given to _reconcile is either the one      *)
(* _upsert returned or an arbitrary one.                                   *)
(***************************************************************************)
LedgerRecords == { transform_row(w) : w \in { v \in LedgerRows : v.valid } }

InitCore ==
    /\ pc \in { "call_upsert", "call_reconcile" }
    /\ source_records \in SeqsUpTo(SourceRecords, MaxRecords)
    /\ IF pc = "call_upsert"
       THEN /\ consolidated_records \in SeqsUpTo(LedgerRecords, MaxRecords)
            /\ upsert_result = EmptyResult
       ELSE /\ consolidated_records = <<>>
            /\ upsert_result \in
                 { UpsertResult(0, 0, 0, all) :
                     all \in SeqsUpTo(SourceRecords \cup LedgerRecords, MaxRecords) }
    /\ report = NewReport
    /\ consolidated_file_id = None
    /\ backup_file_id = None
    /\ source_files = <<>>
    /\ idx = 1
    /\ ledger = <<>>
    /\ local_consolidated = <<>>
    /\ backup_copy = <<>>
    /\ file_loc = <<>>
    /\ run_status = None
    /\ finish_calls = <<>>
    /\ file_log = <<>>
    /\ record_log = <<>>
    /\ notifications = <<>>
    /\ file_log_id = 0
    /\ row_errors = 0
    /\ exc = NoException
    /\ outcome = <<>>
    /\ run_exc = FALSE
    /\ backup_ok = FALSE
    /\ restore_calls = 0
    /\ send_raised = FALSE
    /\ args = <<>>
    /\ ret = None

\* upsert_result = self._upsert(consolidated_records, source_records)
UpsertCall ==
    /\ pc = "call_upsert"
    /\ upsert_result' = upsert(consolidated_records, source_records)
    /\ pc' = "upserted"
    /\ UNCHANGED << report, consolidated_file_id, backup_file_id, source_files, idx,
                    drive_vars, tracker_vars, notifications, file_log_id, source_records,
                    row_errors, consolidated_records, exc, history_vars >>
    /\ UNCHANGED << call_vars, send_raised >>

\* self._reconcile(report, source_records, upsert_result)
ReconcileCall ==
    /\ pc \in { "upserted", "call_reconcile" }
    /\ IF reconcile_raises(source_records, upsert_result) # NoException
       THEN /\ exc' = reconcile_raises(source_records, upsert_result)
            /\ report' = report
            /\ pc' = "reconcile_raised"
       ELSE /\ exc' = exc
            /\ report' = reconcile_report(report, source_records, upsert_result)
            /\ pc' = "reconcile_returned"
    /\ UNCHANGED << consolidated_file_id, backup_file_id, source_files, idx, drive_vars,
                    tracker_vars, notifications, file_log_id, source_records, row_errors,
                    consolidated_records, upsert_result, history_vars >>
    /\ UNCHANGED << call_vars, send_raised >>

NextCore == UpsertCall \/ ReconcileCall

SpecCore == InitCore /\ [][NextCore]_vars

(***************************************************************************)
(* One file from the ledger load to the end of the run: steps 6 to 8 of    *)
(* _process_file and the rest of execute(), for a ledger and a source file *)
(* that may hold the invoices of the specification's append-only example.  *)
(***************************************************************************)
\* the ledger row and the source rows of the example
ExampleLedgerRow ==
    [ invoice_number |-> "F-001", reference_number |-> "R-001", total_amount |-> 119000,
      aprobado_por |-> "ops", valid |-> TRUE ]

ExampleSourceRecords ==
    << InvoiceRecord("F-001", "R-001", 142800, "source"),
       InvoiceRecord("F-005", "R-005", 357000, "source") >>

FileLedgers ==
    SeqsUpTo({ w \in LedgerRows : w.invoice_number = "F-001" } \cup { ExampleLedgerRow },
             MaxLedgerRows)

FileSourceRecords ==
    SeqsUpTo(SourceRecords \cup { ExampleSourceRecords[i] : i \in 1..Len(ExampleSourceRecords) },
             MaxFileRecords)

\* the state of a run that listed one file, backed the ledger up and took the
\* file through steps 1 to 5
InitFile ==
    /\ pc = "pf_merge"
    /\ ledger \in FileLedgers
    /\ local_consolidated = ledger
    /\ backup_copy = ledger
    /\ backup_ok = TRUE
    /\ source_records \in FileSourceRecords
    /\ row_errors \in 0..(MaxFileRecords - Len(source_records))
    /\ report = [ NewReport EXCEPT !.total_files = 1,
                                   !.source_row_count = Len(source_records),
                                   !.valid_row_count = Len(source_records),
                                   !.validation_errors = row_errors ]
    /\ consolidated_file_id = "consolidated_file_id"
    /\ backup_file_id = None
    /\ source_files = << SourceFile(<<"a.xlsx", "t1">>) >>
    /\ idx = 1
    /\ file_loc = << "in_process" >>
    /\ run_status = "RUNNING"
    /\ finish_calls = <<>>
    /\ file_log = << FileLogEntry("run", SourceFile(<<"a.xlsx", "t1">>), "PROCESSING") >>
    /\ record_log = <<>>
    /\ notifications = <<>>
    /\ file_log_id = 1
    /\ consolidated_records = <<>>
    /\ upsert_result = EmptyResult
    /\ exc = NoException
    /\ outcome = << "pending" >>
    /\ run_exc = FALSE
    /\ restore_calls = 0
    /\ send_raised = FALSE
    /\ args = <<>>
    /\ ret = None

NextFile ==
    \/ MergeAndUpsert
    \/ Reconcile
    \/ WriteBack
    \/ FinalizeFileProcessing
    \/ HandleFileError
    \/ LoopHead
    \/ RunExcept
    \/ Finish

SpecFile == InitFile /\ [][NextFile]_vars

(***************************************************************************)
(* SqliteTracker on its own: any sequence of start_run, log_file_start,    *)
(* log_file_schema, log_file_finish and is_file_processed calls.  args is  *)
(* the last call, ret what is_file_processed returned.                     *)
(***************************************************************************)
\* file_modified_time of a row: Drive's modifiedTime, or NULL (the default)
LogTimes == { "t1", "t2", None }

FinishStatuses == { "COMPLETED", "ERROR", "SCHEMA_ERROR" }

InitTracker ==
    /\ pc = "tracker"
    /\ file_log = <<>>
    /\ run_status = None
    /\ args = <<>>
    /\ ret = None
    /\ report = NewReport
    /\ consolidated_file_id = None
    /\ backup_file_id = None
    /\ source_files = <<>>
    /\ idx = 1
    /\ ledger = <<>>
    /\ local_consolidated = <<>>
    /\ backup_copy = <<>>
    /\ file_loc = <<>>
    /\ finish_calls = <<>>
    /\ record_log = <<>>
    /\ notifications = <<>>
    /\ file_log_id = 0
    /\ source_records = <<>>
    /\ row_errors = 0
    /\ consolidated_records = <<>>
    /\ upsert_result = EmptyResult
    /\ exc = NoException
    /\ outcome = <<>>
    /\ run_exc = FALSE
    /\ backup_ok = FALSE
    /\ restore_calls = 0
    /\ send_raised = FALSE

\* what no tracker call touches
TrackerFrame ==
    UNCHANGED << pc, report, consolidated_file_id, backup_file_id, source_files, idx,
                 drive_vars, finish_calls, record_log, notifications, file_locals,
                 history_vars, send_raised >>

\* start_run: INSERT INTO execution_runs ... status RUNNING
TrackerStartRun ==
    /\ run_status = None
    /\ run_status' = "RUNNING"
    /\ args' = << "start_run" >>
    /\ ret' = None
    /\ file_log' = file_log
    /\ TrackerFrame

\* log_file_start: INSERT INTO file_log ... status PROCESSING
TrackerLogFileStart ==
    /\ Len(file_log) < MaxLogRows
    /\ \E name \in { p[1] : p \in SourcePairs }, time \in LogTimes :
          /\ file_log' = Append(file_log,
                 FileLogEntry("run", [ name |-> name, modified_time |-> time ], "PROCESSING"))
          /\ args' = << "log_file_start", name, time >>
    /\ ret' = None
    /\ run_status' = run_status
    /\ TrackerFrame

\* log_file_schema: UPDATE file_log SET schema_valid, missing_columns,
\* extra_columns WHERE id: none of the columns the model keeps
TrackerLogFileSchema ==
    /\ \E id \in 1..Len(file_log), valid \in BOOLEAN :
          args' = << "log_file_schema", id, valid >>
    /\ ret' = None
    /\ UNCHANGED << file_log, run_status >>
    /\ TrackerFrame

\* log_file_finish: UPDATE file_log SET status ... WHERE id
TrackerLogFileFinish ==
    /\ \E id \in 1..Len(file_log), st \in FinishStatuses :
          /\ file_log' = log_file_finish(file_log, id, st)
          /\ args' = << "log_file_finish", id, st >>
    /\ ret' = None
    /\ run_status' = run_status
    /\ TrackerFrame

\* is_file_processed(file_name, modified_time)
TrackerIsFileProcessed ==
    /\ \E p \in SourcePairs :
          /\ args' = << "is_file_processed", p[1], p[2] >>
          /\ ret' = is_file_processed(file_log, p[1], p[2])
    /\ UNCHANGED << file_log, run_status >>
    /\ TrackerFrame

NextTracker ==
    \/ TrackerStartRun
    \/ TrackerLogFileStart
    \/ TrackerLogFileSchema
    \/ TrackerLogFileFinish
    \/ TrackerIsFileProcessed

SpecTracker == InitTracker /\ [][NextTracker]_vars

(***************************************************************************)
(* InvoiceRecord on its own, with all its fields: the construction         *)
(* invariants of __post_init__ and has_changes_vs.  args is the record     *)
(* under construction or the pair compared, ret the record or the answer.  *)
(***************************************************************************)
\* str.strip() on the strings the model uses
Strip(str) == IF str = "  " THEN "" ELSE str

\* "not s or not s.strip()"
IsBlank(str) == str = "" \/ Strip(str) = ""

EntityFieldNames ==
    { "invoice_number", "reference_number", "carrier_name", "ship_name", "dispatch_guides",
      "invoice_date", "description", "net_amount", "tax_amount", "total_amount", "currency",
      "fecha_recepcion_digital", "aprobado_por", "estado_operaciones",
      "fecha_aprobacion_operaciones", "source_file", "processed_at", "status" }

\* a record that passes __post_init__
EntityRecord ==
    [ invoice_number |-> "F-001", reference_number |-> "R-001", carrier_name |-> "ACME",
      ship_name |-> "NAVE", dispatch_guides |-> "G-1", invoice_date |-> "2026-01-15",
      description |-> "flete", net_amount |-> 1, tax_amount |-> 1, total_amount |-> 2,
      currency |-> "CLP", fecha_recepcion_digital |-> "", aprobado_por |-> "",
      estado_operaciones |-> "", fecha_aprobacion_operaciones |-> "",
      source_file |-> "a.xlsx", processed_at |-> None, status |-> "NEW" ]

\* another value for each field
OtherRecord ==
    [ invoice_number |-> "F-005", reference_number |-> "R-005", carrier_name |-> "OTRA",
      ship_name |-> "", dispatch_guides |-> "G-2", invoice_date |-> "2026-01-16",
      description |-> "otro", net_amount |-> 2, tax_amount |-> 0, total_amount |-> 1,
      currency |-> "USD", fecha_recepcion_digital |-> "2026-01-20", aprobado_por |-> "ops",
      estado_operaciones |-> "Aprobado", fecha_aprobacion_operaciones |-> "2026-01-21",
      source_file |-> "consolidado", processed_at |-> "now", status |-> "UPDATED" ]

\* EntityRecord with the fields of the set taken from OtherRecord
RecordWith(base, fields) ==
    [ f \in EntityFieldNames |-> IF f \in fields THEN OtherRecord[f] ELSE base[f] ]

\* keyword arguments InvoiceRecord(...) may be called with
ConstructorArgs ==
    { [ EntityRecord EXCEPT !.invoice_number = inv, !.reference_number = ref,
                            !.carrier_name = car, !.total_amount = total,
                            !.net_amount = net, !.tax_amount = tax ] :
        inv \in { "F-001", "", "  " }, ref \in { "R-001", "", "  " }, car \in { "ACME", "" },
        total \in (-1)..(MaxAmount + 1), net \in 0..MaxAmount, tax \in 0..1 }

\* pairs (self, other) has_changes_vs may be called with: two records of
\* one key that differ in any set of the other fields
ComparedPairs ==
    { << RecordWith(EntityRecord, own), RecordWith(EntityRecord, fields) >> :
        own \in { {}, { "total_amount", "description" } },
        fields \in SUBSET (EntityFieldNames \ { "invoice_number", "reference_number" }) }

\* __post_init__ with the tolerance test >= 1 in place of > 1
post_init_raises_ge(r) ==
    \/ IsBlank(r.invoice_number)
    \/ IsBlank(r.reference_number)
    \/ IsBlank(r.carrier_name)
    \/ r.total_amount < 0
    \/ Abs(r.total_amount - (r.net_amount + r.tax_amount)) >= 1

\* InvoiceRecord.__post_init__ raises ValueError
post_init_raises(r) ==
    \/ IsBlank(r.invoice_number)
    \/ IsBlank(r.reference_number)
    \/ IsBlank(r.carrier_name)
    \/ r.total_amount < 0
    \/ Abs(r.total_amount - (r.net_amount + r.tax_amount)) > 1

\* has_changes_vs that also compares description
has_changes_vs_description(a, b) ==
    \/ a.carrier_name # b.carrier_name
    \/ a.ship_name # b.ship_name
    \/ a.dispatch_guides # b.dispatch_guides
    \/ a.invoice_date # b.invoice_date
    \/ a.description # b.description
    \/ a.net_amount # b.net_amount
    \/ a.tax_amount # b.tax_amount
    \/ a.total_amount # b.total_amount

\* InvoiceRecord.has_changes_vs
has_changes_vs(a, b) ==
    \/ a.carrier_name # b.carrier_name
    \/ a.ship_name # b.ship_name
    \/ a.dispatch_guides # b.dispatch_guides
    \/ a.invoice_date # b.invoice_date
    \/ a.net_amount # b.net_amount
    \/ a.tax_amount # b.tax_amount
    \/ a.total_amount # b.total_amount

InitEntity ==
    /\ pc \in { "call_post_init", "call_has_changes_vs" }
    /\ IF pc = "call_post_init" THEN args \in ConstructorArgs ELSE args \in ComparedPairs
    /\ ret = None
    /\ exc = NoException
    /\ report = NewReport
    /\ consolidated_file_id = None
    /\ backup_file_id = None
    /\ source_files = <<>>
    /\ idx = 1
    /\ ledger = <<>>
    /\ local_consolidated = <<>>
    /\ backup_copy = <<>>
    /\ file_loc = <<>>
    /\ run_status = None
    /\ finish_calls = <<>>
    /\ file_log = <<>>
    /\ record_log = <<>>
    /\ notifications = <<>>
    /\ file_log_id = 0
    /\ source_records = <<>>
    /\ row_errors = 0
    /\ consolidated_records = <<>>
    /\ upsert_result = EmptyResult
    /\ outcome = <<>>
    /\ run_exc = FALSE
    /\ backup_ok = FALSE
    /\ restore_calls = 0
    /\ send_raised = FALSE

EntityFrame ==
    UNCHANGED << args, report, consolidated_file_id, backup_file_id, source_files, idx,
                 drive_vars, tracker_vars, notifications, file_log_id, source_records,
                 row_errors, consolidated_records, upsert_result, history_vars, send_raised >>

\* InvoiceRecord(**args): the dataclass __init__ runs __post_init__
PostInitCall ==
    /\ pc = "call_post_init"
    /\ IF post_init_raises(args)
       THEN /\ pc' = "post_init_raised"
            /\ exc' = PlainException("ValueError")
            /\ ret' = ret
       ELSE /\ pc' = "post_init_returned"
            /\ exc' = exc
            /\ ret' = args
    /\ EntityFrame

\* args[1].has_changes_vs(args[2])
HasChangesVsCall ==
    /\ pc = "call_has_changes_vs"
    /\ ret' = has_changes_vs(args[1], args[2])
    /\ pc' = "has_changes_vs_returned"
    /\ exc' = exc
    /\ EntityFrame

NextEntity == PostInitCall \/ HasChangesVsCall

SpecEntity == InitEntity /\ [][NextEntity]_vars

(***************************************************************************)
(* RowTransformer._parse_money on its own.  A Python str is the sequence   *)
(* of its characters; an int, float or Decimal argument is given by its    *)
(* str().  A Decimal is [kind, coeff, exp] with value coeff / 10^exp.      *)
(***************************************************************************)
MaxLen == 5

\* what a raw cell string is made of
MoneyChars == { "0", "1", ".", ",", "$", " ", "N", "A", "/" }

Digits == << "0", "1", "2", "3", "4", "5", "6", "7", "8", "9" >>

IsDigit(c) == \E i \in 1..Len(Digits) : Digits[i] = c

DigitValue(c) == (CHOOSE i \in 1..Len(Digits) : Digits[i] = c) - 1

AllDigits(s) == \A i \in 1..Len(s) : IsDigit(s[i])

\* int() of a string of digits
RECURSIVE DigitsValue(_)
DigitsValue(s) ==
    IF s = <<>> THEN 0
    ELSE DigitsValue(SubSeq(s, 1, Len(s) - 1)) * 10 + DigitValue(s[Len(s)])

\* str.upper() on the letters the model uses
Upper(c) == CASE c = "n" -> "N" [] c = "a" -> "A" [] OTHER -> c

\* str.strip(): leading and trailing spaces
RECURSIVE strip(_)
strip(s) ==
    IF s = <<>> THEN s
    ELSE IF Head(s) = " " THEN strip(Tail(s))
    ELSE IF s[Len(s)] = " " THEN strip(SubSeq(s, 1, Len(s) - 1))
    ELSE s

\* str.replace(old, new) for a one-character old
RECURSIVE replace(_, _, _)
replace(s, old, new) ==
    IF s = <<>> THEN <<>>
    ELSE (IF Head(s) = old THEN new ELSE << Head(s) >>) \o replace(Tail(s), old, new)

\* c in s
contains(s, c) == \E i \in 1..Len(s) : s[i] = c

\* str.count(c)
count(s, c) == Cardinality({ i \in 1..Len(s) : s[i] = c })

\* str.rindex(c)
rindex(s, c) == CHOOSE i \in 1..Len(s) : s[i] = c /\ \A j \in (i + 1)..Len(s) : s[j] # c

\* s.split(".")[1] for a string with one "."
AfterDot(s) == SubSeq(s, rindex(s, ".") + 1, Len(s))

Finite(coeff, exp) == [ kind |-> "finite", coeff |-> coeff, exp |-> exp ]

NaN(payload) == [ kind |-> "NaN", coeff |-> payload, exp |-> 0 ]

InvalidOperation == [ kind |-> "InvalidOperation", coeff |-> 0, exp |-> 0 ]

\* decimal.Decimal(s) on the characters of the model: digits with at most one
\* point, or NaN with optional payload digits, in any letter case; anything
\* else signals InvalidOperation
DecimalOf(s) ==
    LET u == [ i \in 1..Len(s) |-> Upper(s[i]) ]
        plain == replace(u, ".", <<>>)
    IN  IF Len(u) >= 3 /\ SubSeq(u, 1, 3) = << "N", "A", "N" >>
           /\ AllDigits(SubSeq(u, 4, Len(u)))
        THEN NaN(DigitsValue(SubSeq(u, 4, Len(u))))
        ELSE IF plain # <<>> /\ AllDigits(plain) /\ count(u, ".") <= 1
             THEN Finite(DigitsValue(plain),
                         IF contains(u, ".") THEN Len(AfterDot(u)) ELSE 0)
             ELSE InvalidOperation

\* s after the separator rules of _parse_money
SeparatorRules(s) ==
    IF contains(s, ".") /\ contains(s, ",")
    THEN IF rindex(s, ".") > rindex(s, ",")
         THEN replace(s, ",", <<>>)
         ELSE replace(replace(s, ".", <<>>), ",", << "." >>)
    ELSE IF contains(s, ",") /\ count(s, ",") = 1
         THEN replace(s, ",", << "." >>)
    ELSE IF contains(s, ".") /\ count(s, ".") > 1
         THEN replace(s, ".", <<>>)
    ELSE IF contains(s, ".") /\ count(s, ".") = 1
         THEN (IF Len(AfterDot(s)) = 3 THEN replace(s, ".", <<>>) ELSE s)
    ELSE s

\* RowTransformer._parse_money(value); InvalidOperation stands for the
\* ValueError raised from it
parse_money(value) ==
    IF value.type = "Decimal" THEN DecimalOf(value.text)
    ELSE IF value.type \in { "int", "float" } THEN DecimalOf(value.text)
    ELSE DecimalOf(SeparatorRules(replace(replace(strip(value.text), "$", <<>>), " ", <<>>)))

Chars(str) ==
    CASE str = "1.234.567" -> << "1", ".", "2", "3", "4", ".", "5", "6", "7" >>
      [] str = "1,234.56" -> << "1", ",", "2", "3", "4", ".", "5", "6" >>
      [] str = "1.234,56" -> << "1", ".", "2", "3", "4", ",", "5", "6" >>
      [] str = "1234,56" -> << "1", "2", "3", "4", ",", "5", "6" >>
      [] str = "12.345" -> << "1", "2", ".", "3", "4", "5" >>
      [] str = "$12.345" -> << "$", "1", "2", ".", "3", "4", "5" >>
      [] str = "50000" -> << "5", "0", "0", "0", "0" >>
      [] str = "123.45" -> << "1", "2", "3", ".", "4", "5" >>
      [] str = "999" -> << "9", "9", "9" >>
      [] str = "nan" -> << "n", "a", "n" >>
      [] str = "N/A" -> << "N", "/", "A" >>

\* cell strings: every string of at most MaxLen characters and the strings
\* of TestMoneyParsing
CellStrings ==
    SeqsUpTo(MoneyChars, MaxLen)
      \cup { Chars(str) : str \in { "1.234.567", "1,234.56", "1.234,56", "1234,56", "12.345",
                                    "$12.345", "50000", "N/A" } }

\* the arguments _parse_money may be called with
MoneyArgs ==
    { [ type |-> "str", text |-> s ] : s \in CellStrings }
      \cup { [ type |-> "int", text |-> Chars(str) ] : str \in { "50000", "999" } }
      \cup { [ type |-> "float", text |-> Chars(str) ] : str \in { "123.45", "12.345", "nan" } }
      \cup { [ type |-> "Decimal", text |-> Chars(str) ] : str \in { "999", "123.45" } }

\* no run is in progress: the state of the use case after construction
NoRun ==
    /\ report = NewReport
    /\ consolidated_file_id = None
    /\ backup_file_id = None
    /\ source_files = <<>>
    /\ idx = 1
    /\ ledger = <<>>
    /\ local_consolidated = <<>>
    /\ backup_copy = <<>>
    /\ file_loc = <<>>
    /\ run_status = None
    /\ finish_calls = <<>>
    /\ file_log = <<>>
    /\ record_log = <<>>
    /\ notifications = <<>>
    /\ file_log_id = 0
    /\ source_records = <<>>
    /\ row_errors = 0
    /\ consolidated_records = <<>>
    /\ upsert_result = EmptyResult
    /\ outcome = <<>>
    /\ run_exc = FALSE
    /\ backup_ok = FALSE
    /\ restore_calls = 0
    /\ send_raised = FALSE

InitMoney ==
    /\ pc = "call_parse_money"
    /\ args \in MoneyArgs
    /\ ret = None
    /\ exc = NoException
    /\ NoRun

\* RowTransformer._parse_money(args)
ParseMoneyCall ==
    /\ pc = "call_parse_money"
    /\ IF parse_money(args) = InvalidOperation
       THEN /\ pc' = "parse_money_raised"
            /\ exc' = PlainException("ValueError")
            /\ ret' = ret
       ELSE /\ pc' = "parse_money_returned"
            /\ exc' = exc
            /\ ret' = parse_money(args)
    /\ EntityFrame

NextMoney == ParseMoneyCall

SpecMoney == InitMoney /\ [][NextMoney]_vars

(***************************************************************************)
(* The run when every write to the tracker succeeds: start_run,            *)
(* log_file_start, log_file_schema, log_records_batch, log_file_finish and *)
(* finish_run return; every other collaborator still returns or raises.    *)
(***************************************************************************)
\* the step in which a tracker write raises
TrackerWriteRaised ==
    \/ pc = "start_run" /\ pc' = "except"
    \/ pc = "pf_start" /\ pc' = "pf_except" /\ file_log' = file_log
    \/ pc = "pf_validate" /\ pc' = "pf_except"
    \/ pc = "pf_merge" /\ pc' = "pf_except"
    \/ pc = "pf_finalize" /\ pc' = "pf_except" /\ file_loc' # file_loc
    \/ pc = "pf_except" /\ pc' = "except"
    \/ pc = "finish" /\ run_status' # report.status

NextTrackerOk ==
    \/ CleanDownloads /\ ~TrackerWriteRaised
    \/ StartRun /\ ~TrackerWriteRaised
    \/ ResolveAndFind /\ ~TrackerWriteRaised
    \/ ListSourceFiles /\ ~TrackerWriteRaised
    \/ BackupConsolidated /\ ~TrackerWriteRaised
    \/ LoopHead /\ ~TrackerWriteRaised
    \/ IsFileAlreadyProcessed /\ ~TrackerWriteRaised
    \/ InitiateFileProcessing /\ ~TrackerWriteRaised
    \/ DownloadAndExtractSource /\ ~TrackerWriteRaised
    \/ ValidateSourceRecords /\ ~TrackerWriteRaised
    \/ DownloadConsolidated /\ ~TrackerWriteRaised
    \/ MergeAndUpsert /\ ~TrackerWriteRaised
    \/ Reconcile /\ ~TrackerWriteRaised
    \/ WriteBack /\ ~TrackerWriteRaised
    \/ FinalizeFileProcessing /\ ~TrackerWriteRaised
    \/ HandleFileError /\ ~TrackerWriteRaised
    \/ RunExcept /\ ~TrackerWriteRaised
    \/ Finish /\ ~TrackerWriteRaised

SpecTrackerOk == Init /\ [][NextTrackerOk]_vars

(***************************************************************************)
(* Claims                                                                  *)
(***************************************************************************)
PerFilePcs ==
    { "pf_check", "pf_start", "pf_extract", "pf_validate", "pf_download", "pf_merge",
      "pf_reconcile", "pf_write", "pf_finalize", "pf_except" }

\* execute() has ended: it returned the report or an exception left it
Ended == pc \in { "done", "raised" }

\* C1: every call of execute(), whatever fails (downloads-folder cleanup
\* included), attempts tracker.finish_run once and calls notifier.send exactly
\* once with the final status before it ends: never zero, never two.
C1_FinishAndNotifyExactlyOnce ==
    /\ Len(finish_calls) <= 1
    /\ Len(notifications) <= 1
    /\ Ended => /\ finish_calls = << report.status >>
                /\ notifications = << report.status >>

\* C2: when the backup succeeded and an exception reaches the run level, the
\* run is ERROR, drive.restore_backup is called, and after a successful
\* restore the ledger equals the backup and rollback_executed is true.
C2_RollbackAfterBackup ==
    (pc = "done" /\ backup_ok /\ run_exc) =>
        /\ report.status = "ERROR"
        /\ restore_calls = 1
        /\ report.rollback_executed => ledger = backup_copy

C3_Completed(f) ==
    \E i \in 1..Len(file_log) :
        /\ file_log[i].file_name = f.name
        /\ file_log[i].file_modified_time = f.modified_time
        /\ file_log[i].status = "COMPLETED"

C3_CompletedEntries(p) ==
    { i \in 1..Len(file_log) :
        /\ file_log[i].file_name = p[1]
        /\ file_log[i].file_modified_time = p[2]
        /\ file_log[i].status = "COMPLETED" }

\* C3: for a file whose (name, modified_time) already has a COMPLETED
\* file-log entry, _process_file writes nothing to the tracker, moves no file,
\* downloads nothing and writes no ledger; no pair gets a second COMPLETED entry.
C3_CompletedFileIsSkipped ==
    /\ [][ (pc \in PerFilePcs /\ C3_Completed(CurrentFile)) =>
             /\ pc' \in { "loop", "pf_except" }
             /\ UNCHANGED << tracker_vars, drive_vars >> ]_vars
    /\ [](\A p \in SourcePairs : Cardinality(C3_CompletedEntries(p)) <= 1)

\* a listed file was skipped although the run processed it, and the run ended
C3_Witness ==
    /\ pc = "done"
    /\ \E i \in 1..Len(source_files) : outcome[i] = "skipped"

\* C4: _process_file runs for every listed file in order; no exception of a
\* file's steps leaves _process_file or keeps the following files from running.
C4_FileErrorsContained ==
    /\ \A i \in 1..Len(outcome) : outcome[i] # "escaped"
    /\ (pc = "done" /\ backup_ok) => \A i \in 1..Len(outcome) : outcome[i] # "pending"

C5_Failed == { i \in 1..Len(outcome) : outcome[i] = "failed" }

\* C5: when the run ends without a run-level exception, the status is NO_FILES
\* iff no file was listed, and otherwise SUCCESS iff no file failed, PARTIAL iff
\* some but not all failed, ERROR iff all failed.
C5_StatusDerivation ==
    (pc = "done" /\ ~run_exc) =>
        /\ report.status = "NO_FILES" <=> source_files = <<>>
        /\ source_files # <<>> =>
              /\ report.status = "SUCCESS" <=> C5_Failed = {}
              /\ report.status = "PARTIAL" <=>
                    (C5_Failed # {} /\ Cardinality(C5_Failed) < Len(source_files))
              /\ report.status = "ERROR" <=> Cardinality(C5_Failed) = Len(source_files)

\* one of two files failed and the run ended PARTIAL
C5_Witness ==
    /\ pc = "done"
    /\ ~run_exc
    /\ report.status = "PARTIAL"
    /\ Cardinality(C5_Failed) = 1

\* C6: until lifecycle.backup_consolidated has returned, no step writes the
\* local ledger copy or the ledger on Drive and no file is processed; so a
\* failed backup leaves the ledger unchanged and every file unprocessed.
C6_BackupBeforeLedgerWrite ==
    [][ ~backup_ok' =>
          /\ ledger' = ledger
          /\ local_consolidated' = local_consolidated
          /\ pc' \notin PerFilePcs
          /\ \A i \in 1..Len(outcome') : outcome'[i] = "pending" ]_vars

\* the backup was taken and the ledger on Drive was written afterwards
C6_Witness == backup_ok /\ ledger # backup_copy

C7_Fresh(r) == primary_key(r) \notin KeysOf(consolidated_records)

\* C7: a write-back appends to the ledger exactly the records whose key was
\* absent from the ledger snapshot, one row per new key, and leaves the rows
\* the ledger had in place.
C7_OnlyNewKeysWritten ==
    [][ ledger' # ledger =>
          ledger' = ledger \o records_to_dataframe(SelectSeq(upsert_result.all_records, C7_Fresh))
      ]_vars

\* C8: every key of an incoming record and every key of the ledger snapshot
\* is the key of a record of the set _upsert returns.
C8_NoKeyDropped ==
    pc = "upserted" =>
        /\ \A i \in 1..Len(source_records) :
              \E j \in 1..Len(upsert_result.all_records) :
                 primary_key(upsert_result.all_records[j]) = primary_key(source_records[i])
        /\ \A i \in 1..Len(consolidated_records) :
              \E j \in 1..Len(upsert_result.all_records) :
                 primary_key(upsert_result.all_records[j]) = primary_key(consolidated_records[i])

\* _upsert returned for a snapshot and an incoming list that share a key and
\* each hold a key of their own
C8_Witness ==
    /\ pc = "upserted"
    /\ KeysOf(source_records) \cap KeysOf(consolidated_records) # {}
    /\ Cardinality(KeysOf(source_records) \cup KeysOf(consolidated_records)) = 2
    /\ upsert_result.inserted = 1

C9_SourceKeys == { primary_key(source_records[i]) : i \in 1..Len(source_records) }

C9_ResultKeys ==
    { primary_key(upsert_result.all_records[i]) : i \in 1..Len(upsert_result.all_records) }

C9_Lost == C9_SourceKeys \ C9_ResultKeys

RECURSIVE C9_Sum(_, _)
C9_Sum(records, keys) ==
    IF records = <<>> THEN 0
    ELSE (IF primary_key(Head(records)) \in keys THEN Head(records).total_amount ELSE 0)
         + C9_Sum(Tail(records), keys)

C9_SourceTotal == C9_Sum(source_records, C9_SourceKeys)

C9_ResultTotal == C9_Sum(upsert_result.all_records, C9_SourceKeys)

C9_Fails ==
    \/ C9_Lost # {}
    \/ C9_SourceTotal - C9_ResultTotal > 1
    \/ C9_ResultTotal - C9_SourceTotal > 1

\* C9: _reconcile raises ReconciliationError exactly when an incoming key is
\* missing from the result set (carrying the share of incoming keys lost) or
\* the two sums differ by more than 1 (carrying the variance); a difference
\* of exactly 1 passes, and only then are the sums added to the report.
C9_ReconcileRaisesExactly ==
    [][ (pc = "upserted" \/ pc = "call_reconcile") =>
          /\ pc' = "reconcile_raised" <=> C9_Fails
          /\ C9_Fails =>
                /\ exc'.type = "ReconciliationError"
                /\ report' = report
                /\ C9_Lost # {} =>
                      /\ exc'.missing = Cardinality(C9_Lost)
                      /\ exc'.keys = Cardinality(C9_SourceKeys)
                /\ C9_Lost = {} =>
                      exc'.amount_variance = Abs(C9_SourceTotal - C9_ResultTotal)
          /\ ~C9_Fails =>
                /\ report'.source_total_amount = report.source_total_amount + C9_SourceTotal
                /\ report'.output_total_amount = report.output_total_amount + C9_ResultTotal
      ]_vars

\* _reconcile returned for sums that differ by exactly 1
C9_Witness ==
    /\ pc = "reconcile_returned"
    /\ Abs(C9_SourceTotal - C9_ResultTotal) = 1
    /\ report.source_total_amount = C9_SourceTotal

\* C10: when reconciliation fails for a file nothing is written to the ledger,
\* the report's counters and totals stay, the file is not archived, it is
\* logged ERROR and added to the error list, and the loop goes on.
C10_ReconcileFailureIsContained ==
    [][ /\ (pc = "pf_reconcile" /\ pc' = "pf_except") =>
             /\ exc'.type = "ReconciliationError"
             /\ report' = report
             /\ UNCHANGED << ledger, local_consolidated, file_loc >>
        /\ (pc = "pf_except" /\ exc.type = "ReconciliationError") =>
             /\ file_log'[file_log_id].status = "ERROR"
             /\ report' = [ report EXCEPT
                              !.files_with_errors = Append(@, CurrentFile.name) ]
             /\ UNCHANGED << ledger, local_consolidated >>
             /\ file_loc'[idx] = "in_process"
             /\ pc' = "loop"
             /\ idx' = idx + 1
      ]_vars

C11_Given ==
    /\ consolidated_records = << transform_row(ExampleLedgerRow) >>
    /\ source_records = ExampleSourceRecords

\* C11: with a ledger holding only (F-001,R-001) with total 119000 and a source
\* file with rows (F-001,R-001) total 142800 and (F-005,R-005) total 357000,
\* the file is reconciled and written: the ledger then holds exactly the two
\* keys, F-001 still with 119000, and the report shows inserted 1, updated 0.
C11_AppendOnlyExample ==
    C11_Given =>
        /\ ~(pc = "pf_except" /\ exc.type = "ReconciliationError")
        /\ pc = "pf_finalize" =>
              /\ Len(ledger) = 2
              /\ KeysOf(dataframe_to_records(ledger)) = Keys
              /\ ledger[1] = ExampleLedgerRow
              /\ report.inserted_count = 1
              /\ report.updated_count = 0

\* the ledger records _upsert was given for the key of r
C12_ExistingFor(r) ==
    { consolidated_records[j] : j \in { k \in 1..Len(consolidated_records) :
          primary_key(consolidated_records[k]) = primary_key(r) } }

\* C12: _upsert counts every incoming record once, as inserted, updated or
\* unchanged, so the three counters add up to the number of incoming records,
\* and an incoming record that changes a ledger record is counted as updated.
C12_EveryRecordCounted ==
    pc = "upserted" =>
        /\ upsert_result.inserted + upsert_result.updated + upsert_result.unchanged
              = Len(source_records)
        /\ (\E i \in 1..Len(source_records) :
                /\ C12_ExistingFor(source_records[i]) # {}
                /\ \A e \in C12_ExistingFor(source_records[i]) :
                      e.total_amount # source_records[i].total_amount)
              => upsert_result.updated >= 1

C13_ResultSet == { upsert_result.all_records[j] : j \in 1..Len(upsert_result.all_records) }

C13_Matches(r) ==
    \E e \in C12_ExistingFor(r) : e.total_amount = r.total_amount

\* C13: for an incoming record whose key is in the ledger snapshot with equal
\* business fields, the result holds for that key a record of the snapshot,
\* with the ledger-only field it had, and not the incoming record.
C13_ExistingRecordSurvives ==
    pc = "upserted" =>
        \A i \in 1..Len(source_records) :
            C13_Matches(source_records[i]) =>
                \A m \in C13_ResultSet :
                    primary_key(m) = primary_key(source_records[i]) =>
                        /\ m \in C12_ExistingFor(source_records[i])
                        /\ m.aprobado_por = "ops"
                        /\ m # source_records[i]

\* _upsert returned for an incoming record that equals a ledger record in key
\* and amount
C13_Witness ==
    /\ pc = "upserted"
    /\ \E i \in 1..Len(source_records) : C13_Matches(source_records[i])

\* a file-log row with this name, this modification time and status COMPLETED
C14_CompletedRow(log, name, time) ==
    \E i \in 1..Len(log) :
        /\ log[i].file_name = name
        /\ log[i].file_modified_time = time
        /\ log[i].status = "COMPLETED"

C14_Queried == args # <<>> /\ args[1] = "is_file_processed"

\* C14: after any sequence of tracker calls, is_file_processed(name, time)
\* is true iff a file-log row has that name, that modification time and status
\* COMPLETED: log_file_start (a PROCESSING row) changes no answer, and
\* log_file_finish changes the answer for the row's own name and time only.
C14_IdempotencyQuery ==
    /\ [](C14_Queried => (ret <=> C14_CompletedRow(file_log, args[2], args[3])))
    /\ [][ \A p \in SourcePairs :
             /\ (args' # <<>> /\ args'[1] = "log_file_start") =>
                    (is_file_processed(file_log', p[1], p[2])
                       <=> is_file_processed(file_log, p[1], p[2]))
             /\ (args' # <<>> /\ args'[1] = "log_file_finish") =>
                    LET row == file_log[args'[2]]
                    IN  IF row.file_name = p[1] /\ row.file_modified_time = p[2]
                        THEN args'[3] = "COMPLETED" => is_file_processed(file_log', p[1], p[2])
                        ELSE is_file_processed(file_log', p[1], p[2])
                               <=> is_file_processed(file_log, p[1], p[2])
          ]_vars

\* the query answered false for a file that has a PROCESSING row of the same
\* time and a COMPLETED row of another time
C14_Witness ==
    /\ C14_Queried
    /\ ret = FALSE
    /\ \E i, j \in 1..Len(file_log) :
          /\ file_log[i].file_name = args[2]
          /\ file_log[i].file_modified_time = args[3]
          /\ file_log[i].status = "PROCESSING"
          /\ file_log[j].file_name = args[2]
          /\ file_log[j].file_modified_time # args[3]
          /\ file_log[j].status = "COMPLETED"

\* C15: when _process_file has handled an exception of a file, the file's name
\* was appended once to files_with_errors, its file-log row is finished as
\* SCHEMA_ERROR for a SchemaValidationError and as ERROR for any other
\* exception, and no row of this run is left unfinished or COMPLETED for it.
C15_FailedFileIsLoggedByKind ==
    [][ (pc = "pf_except" /\ pc' = "loop") =>
          /\ report'.files_with_errors = Append(report.files_with_errors, CurrentFile.name)
          /\ \A i \in 1..Len(file_log') :
                file_log'[i].run_uuid = "run" => file_log'[i].status # "PROCESSING"
          /\ file_log_id # 0 =>
                file_log'[file_log_id].status =
                   IF exc.type = "SchemaValidationError" THEN "SCHEMA_ERROR" ELSE "ERROR"
      ]_vars

\* C16: when notifier.send raises, execute() still returns its report, no
\* second send is made, and report.status and the status passed to
\* tracker.finish_run are what they were before the send.
C16_SendFailureIsSwallowed ==
    /\ [](send_raised =>
            /\ pc = "done"
            /\ notifications = << report.status >>
            /\ finish_calls = << report.status >>)
    /\ [][ pc = "finish" =>
             /\ pc' = "done"
             /\ report' = report
             /\ finish_calls' = Append(finish_calls, report.status)
             /\ notifications' = Append(notifications, report.status) ]_vars

\* notifier.send raised at the end of a run that ended SUCCESS
C16_Witness ==
    /\ send_raised
    /\ pc = "done"
    /\ report.status = "SUCCESS"

C17_ErrorEntries(log) == { i \in 1..Len(log) : log[i].action = "VALIDATION_ERROR" }

\* C17: the rows of a file that failed extraction are recorded, one entry in
\* report.validation_errors and one VALIDATION_ERROR record-log entry each,
\* while the other rows are upserted; the file is then logged COMPLETED and
\* is not added to files_with_errors.
C17_RowErrorsAreRecordedNotFatal ==
    [][ /\ (pc = "pf_validate" /\ pc' = "pf_download") =>
             /\ report'.validation_errors = report.validation_errors + row_errors
             /\ report'.files_with_errors = report.files_with_errors
        /\ (pc = "pf_merge" /\ pc' = "pf_reconcile") =>
             /\ Len(record_log') = Len(record_log) + Len(source_records) + row_errors
             /\ Cardinality(C17_ErrorEntries(record_log'))
                   = Cardinality(C17_ErrorEntries(record_log)) + row_errors
             /\ KeysOf(source_records) \subseteq KeysOf(upsert_result'.all_records)
        /\ (pc = "pf_finalize" /\ pc' = "loop") =>
             /\ file_log'[file_log_id].status = "COMPLETED"
             /\ report'.files_with_errors = report.files_with_errors
      ]_vars

\* a run ended SUCCESS after a file with a bad row and a good row: the bad
\* row is in the report and the record log, the good row was inserted and the
\* file is COMPLETED
C17_Witness ==
    /\ pc = "done"
    /\ report.status = "SUCCESS"
    /\ report.validation_errors >= 1
    /\ report.inserted_count >= 1
    /\ C17_ErrorEntries(record_log) # {}
    /\ \E i \in 1..Len(file_log) :
          file_log[i].run_uuid = "run" /\ file_log[i].status = "COMPLETED"

C18_RunRows == { i \in 1..Len(file_log) : file_log[i].run_uuid = "run" }

\* C18: a run whose source folder lists no file takes no backup, processes no
\* file, creates no file-log or record-log entry and never loads or writes the
\* ledger; it ends NO_FILES, with the tracked run started and finished and the
\* notification sent.
C18_NoFilesTouchesNothing ==
    /\ [](report.status = "NO_FILES" =>
            /\ source_files = <<>>
            /\ pc \in { "finish", "done" }
            /\ ~backup_ok
            /\ backup_copy = <<>>
            /\ local_consolidated = <<>>
            /\ C18_RunRows = {}
            /\ record_log = <<>>
            /\ run_status # None
            /\ pc = "done" =>
                  /\ finish_calls = << "NO_FILES" >>
                  /\ notifications = << "NO_FILES" >>)
    /\ [][ report'.status = "NO_FILES" =>
             UNCHANGED << ledger, local_consolidated, backup_copy, file_log, record_log >> ]_vars

\* a run that found no source file has ended
C18_Witness ==
    /\ pc = "done"
    /\ report.status = "NO_FILES"
    /\ run_status = "NO_FILES"
    /\ notifications = << "NO_FILES" >>

\* what the construction invariants forbid
C19_Forbidden(r) ==
    \/ Strip(r.invoice_number) = ""
    \/ Strip(r.reference_number) = ""
    \/ r.total_amount < 0
    \/ r.total_amount - (r.net_amount + r.tax_amount) > 1
    \/ (r.net_amount + r.tax_amount) - r.total_amount > 1

C19_OffByOne(r) ==
    \/ r.total_amount - (r.net_amount + r.tax_amount) = 1
    \/ (r.net_amount + r.tax_amount) - r.total_amount = 1

\* C19: InvoiceRecord(...) raises ValueError, and no record exists, whenever
\* invoice_number or reference_number is blank after trimming, total_amount is
\* negative or total_amount is more than 1 away from net_amount + tax_amount;
\* a record that is exactly 1 away and otherwise valid is constructed.
C19_ConstructionInvariants ==
    /\ pc = "post_init_returned" => (ret = args /\ ~C19_Forbidden(ret))
    /\ (pc \in { "post_init_raised", "post_init_returned" } /\ C19_Forbidden(args)) =>
          (pc = "post_init_raised" /\ exc.type = "ValueError" /\ ret = None)
    /\ ( /\ pc \in { "post_init_raised", "post_init_returned" }
         /\ C19_OffByOne(args)
         /\ args.total_amount >= 0
         /\ Strip(args.invoice_number) # ""
         /\ Strip(args.reference_number) # ""
         /\ Strip(args.carrier_name) # "" ) => pc = "post_init_returned"

\* a record whose total is exactly 1 away from net + tax was constructed
C19_Witness ==
    /\ pc = "post_init_returned"
    /\ C19_OffByOne(ret)

C20_BusinessFields ==
    { "carrier_name", "ship_name", "dispatch_guides", "invoice_date", "net_amount",
      "tax_amount", "total_amount" }

\* C20: a.has_changes_vs(b) is true iff a and b differ in carrier name, ship
\* name, dispatch guides, invoice date, net, tax or total amount; differences
\* in any other field never make it true.
C20_HasChangesIffBusinessFieldDiffers ==
    pc = "has_changes_vs_returned" =>
        (ret <=> \E f \in C20_BusinessFields : args[1][f] # args[2][f])

\* has_changes_vs answered false for two records that differ in description,
\* currency, a workflow field, source file, timestamp and status
C20_Witness ==
    /\ pc = "has_changes_vs_returned"
    /\ ret = FALSE
    /\ \A f \in { "description", "currency", "aprobado_por", "source_file", "processed_at",
                   "status" } : args[1][f] # args[2][f]

C21_Kept(c) == c \notin { "$", " " }

\* the raw string without currency signs and blanks
C21_Cleaned == SelectSeq(args.text, C21_Kept)

C21_Positions(t, c) == { i \in 1..Len(t) : t[i] = c }

C21_Last(S) == CHOOSE i \in S : \A j \in S : j <= i

\* t with every thousands character dropped and every decimal character
\* written as a point
RECURSIVE C21_Rewrite(_, _, _)
C21_Rewrite(t, decimal, thousands) ==
    IF t = <<>> THEN <<>>
    ELSE (IF Head(t) = thousands THEN <<>>
          ELSE IF Head(t) = decimal THEN << "." >>
          ELSE << Head(t) >>) \o C21_Rewrite(Tail(t), decimal, thousands)

\* the numeral the stated rules make of t
C21_Numeral(t) ==
    LET dots == C21_Positions(t, ".")
        commas == C21_Positions(t, ",")
    IN  IF dots # {} /\ commas # {}
        THEN IF C21_Last(dots) > C21_Last(commas)
             THEN C21_Rewrite(t, ".", ",")
             ELSE C21_Rewrite(t, ",", ".")
        ELSE IF Cardinality(commas) = 1 THEN C21_Rewrite(t, ",", None)
        ELSE IF Cardinality(dots) > 1 THEN C21_Rewrite(t, None, ".")
        ELSE IF /\ Cardinality(dots) = 1
                /\ C21_Last(dots) = Len(t) - 3
                /\ \A i \in (Len(t) - 2)..Len(t) : IsDigit(t[i])
             THEN C21_Rewrite(t, None, ".")
        ELSE t

\* a number: digits, at least one, with at most one point among them
C21_IsNumber(n) ==
    /\ \A i \in 1..Len(n) : IsDigit(n[i]) \/ n[i] = "."
    /\ \E i \in 1..Len(n) : IsDigit(n[i])
    /\ Cardinality(C21_Positions(n, ".")) <= 1

C21_Returned(coeff, exp) ==
    /\ pc = "parse_money_returned"
    /\ ret.kind = "finite"
    /\ ret.coeff = coeff
    /\ ret.exp = exp

\* C21: _parse_money applies the separator rules in order: with both "." and
\* "," the one occurring last is the decimal separator and the other is
\* removed; a lone "," is the decimal separator; several "." are thousands
\* separators; a single "." followed by exactly three digits is a thousands
\* separator.  "1.234.567" gives 1234567, "1,234.56" and "1.234,56" give
\* 1234.56, "12.345" gives 12345, and a string that is not a number after
\* these rules, such as "N/A", raises ValueError.
C21_SeparatorRulesInOrder ==
    (pc # "call_parse_money" /\ args.type = "str") =>
        /\ LET n == C21_Numeral(C21_Cleaned)
               point == C21_Positions(n, ".")
           IN  IF C21_IsNumber(n)
               THEN C21_Returned(DigitsValue(C21_Rewrite(n, None, ".")),
                                 IF point = {} THEN 0 ELSE Len(n) - C21_Last(point))
               ELSE pc = "parse_money_raised" /\ exc.type = "ValueError"
        /\ args.text = Chars("1.234.567") => C21_Returned(1234567, 0)
        /\ args.text = Chars("1,234.56") => C21_Returned(123456, 2)
        /\ args.text = Chars("1.234,56") => C21_Returned(123456, 2)
        /\ args.text = Chars("12.345") => C21_Returned(12345, 0)
        /\ args.text = Chars("N/A") => pc = "parse_money_raised"

\* the file-log rows a step sets to COMPLETED
C22_NewlyCompleted ==
    { i \in 1..Len(file_log') :
        /\ file_log'[i].status = "COMPLETED"
        /\ (i > Len(file_log) \/ file_log[i].status # "COMPLETED") }

\* C22: a file-log entry is set to COMPLETED only after, for that file and in
\* this order, reconciliation passed, the write-back (writer.write, then
\* drive.update_file) finished and the source file was moved to the backup
\* folder; a failure in any of these steps leaves the entry not COMPLETED, and
\* the file stays eligible for a later run.
C22_CompletedOnlyAfterAllSteps ==
    [][ /\ C22_NewlyCompleted # {} =>
             /\ C22_NewlyCompleted = { file_log_id }
             /\ file_log[file_log_id].file_name = CurrentFile.name
             /\ file_log[file_log_id].file_modified_time = CurrentFile.modified_time
             /\ pc = "pf_finalize"
             /\ ~C9_Fails
             /\ ledger = local_consolidated
             /\ KeysOf(source_records) \subseteq KeysOf(dataframe_to_records(ledger))
             /\ file_loc[idx] = "in_process"
             /\ file_loc'[idx] = "backup"
        /\ pc' = "pf_finalize" => pc = "pf_write"
        /\ pc' = "pf_write" => (pc = "pf_reconcile" /\ ~C9_Fails)
        /\ (pc = "pf_write" /\ ledger' # ledger) => local_consolidated' = ledger'
        /\ (pc \in { "pf_reconcile", "pf_write", "pf_finalize" } /\ pc' = "pf_except") =>
             /\ file_log' = file_log
             /\ file_log[file_log_id].status = "PROCESSING"
        /\ (pc = "pf_except" /\ file_log_id # 0) =>
             /\ file_log'[file_log_id].status # "COMPLETED"
             /\ ~C14_CompletedRow(file_log', CurrentFile.name, CurrentFile.modified_time)
      ]_vars

\* a run ended with a file COMPLETED, archived, and its records in the ledger
C22_Witness ==
    /\ pc = "done"
    /\ \E i \in 1..Len(source_files) :
          /\ outcome[i] = "completed"
          /\ file_loc[i] = "backup"
          /\ C14_CompletedRow(file_log, source_files[i].name, source_files[i].modified_time)
    /\ Len(ledger) > Len(backup_copy)

\* the record-log rows a step appends
C23_Appended == SubSeq(record_log', Len(record_log) + 1, Len(record_log'))

C23_RecordEntries(log) == { i \in 1..Len(log) : log[i].action # "VALIDATION_ERROR" }

\* C23: for each incoming record of a file exactly one record-log entry is
\* written, with the record's invoice and reference numbers and the action
\* taken on it: INSERT iff its key was absent from the ledger snapshot,
\* otherwise UPDATE or UNCHANGED.
C23_OneLogEntryPerRecordWithItsAction ==
    [][ (pc = "pf_merge" /\ pc' = "pf_reconcile") =>
          /\ C23_RecordEntries(C23_Appended) = 1..Len(source_records)
          /\ \A i \in 1..Len(source_records) :
                /\ C23_Appended[i].file_log_id = file_log_id
                /\ C23_Appended[i].invoice_number = source_records[i].invoice_number
                /\ C23_Appended[i].reference_number = source_records[i].reference_number
                /\ C23_Appended[i].action \in { "INSERT", "UPDATE", "UNCHANGED" }
                /\ C23_Appended[i].action = "INSERT" <=>
                      primary_key(source_records[i]) \notin KeysOf(consolidated_records')
      ]_vars

C24_FinalStatuses == { "SUCCESS", "PARTIAL", "ERROR", "NO_FILES" }

\* C24: the tracked run is started (status RUNNING) before any file is logged
\* or processed, and when execute() returns, the status passed to
\* tracker.finish_run, the status of the notification subject and
\* report.status are one value, which is SUCCESS, PARTIAL, ERROR or NO_FILES
\* and never PENDING or RUNNING.
C24_StartedFirstAndOneFinalStatus ==
    /\ [](pc \in PerFilePcs \cup { "list", "backup", "loop" } => run_status = "RUNNING")
    /\ [][ (file_log' # file_log \/ record_log' # record_log \/ file_loc' # file_loc
              \/ ledger' # ledger \/ outcome' # outcome) => run_status = "RUNNING" ]_vars
    /\ [](pc = "done" =>
            /\ report.status \in C24_FinalStatuses
            /\ finish_calls = << report.status >>
            /\ notifications = << report.status >>
            /\ run_status \in { None, "RUNNING", report.status })

\* execute() returned PARTIAL after two files, with the run started, finished
\* as PARTIAL in the tracker and notified as PARTIAL
C24_Witness ==
    /\ pc = "done"
    /\ Len(source_files) = 2
    /\ report.status = "PARTIAL"
    /\ run_status = "PARTIAL"
    /\ finish_calls = << "PARTIAL" >>
    /\ notifications = << "PARTIAL" >>

C25_WithKey(records, k) == { i \in 1..Len(records) : primary_key(records[i]) = k }

\* keys that two or more incoming records share, absent from the ledger
\* snapshot, each of the records with a total greater than 1
C25_DuplicatedNewKeys ==
    { k \in KeysOf(source_records) :
        /\ Cardinality(C25_WithKey(source_records, k)) >= 2
        /\ k \notin KeysOf(consolidated_records)
        /\ \A i \in C25_WithKey(source_records, k) : source_records[i].total_amount > 1 }

C25_First(k) == CHOOSE i \in C25_WithKey(source_records, k) :
                    \A j \in C25_WithKey(source_records, k) : i <= j

\* C25: when a source file yields two or more records of one key, the key
\* absent from the ledger and each total greater than 1, only the first of
\* them enters the upsert result while the monetary check sums all incoming
\* totals, so reconciliation fails for the file and nothing from the file is
\* written to the ledger.
C25_DuplicateKeyFailsReconciliation ==
    [][ (pc \in { "pf_reconcile", "pf_write", "pf_finalize" } /\ C25_DuplicatedNewKeys # {}) =>
          /\ \A k \in C25_DuplicatedNewKeys :
                \A j \in C25_WithKey(upsert_result.all_records, k) :
                    /\ Cardinality(C25_WithKey(upsert_result.all_records, k)) = 1
                    /\ upsert_result.all_records[j] = source_records[C25_First(k)]
          /\ pc = "pf_reconcile"
          /\ pc' = "pf_except"
          /\ exc'.type = "ReconciliationError"
          /\ ledger' = ledger
          /\ local_consolidated' = local_consolidated
      ]_vars

\* the rows of the downloaded ledger that do not transform into a record
C26_BadRows == { i \in 1..Len(local_consolidated) : ~local_consolidated[i].valid }

C26_GoodRows == { i \in 1..Len(local_consolidated) : local_consolidated[i].valid }

C26_RowKey(i) ==
    << local_consolidated[i].invoice_number, local_consolidated[i].reference_number >>

\* incoming records whose key is the key of a bad row and of no good row
C26_Shadowed ==
    { i \in 1..Len(source_records) :
        /\ \E b \in C26_BadRows : C26_RowKey(b) = primary_key(source_records[i])
        /\ \A g \in C26_GoodRows : C26_RowKey(g) # primary_key(source_records[i]) }

\* C26: a ledger row that cannot be transformed into a valid record is left
\* out of the ledger snapshot and no error is recorded for it in the report or
\* the tracker; an incoming record with the key of such a row is then
\* classified as an insert.
C26_BadLedgerRowIsSilentlySkipped ==
    [][ (pc = "pf_merge" /\ pc' = "pf_reconcile") =>
          /\ Len(consolidated_records') = Cardinality(C26_GoodRows)
          /\ KeysOf(consolidated_records') = { C26_RowKey(g) : g \in C26_GoodRows }
          /\ report' = report
          /\ file_log' = file_log
          /\ run_status' = run_status
          /\ Cardinality(C17_ErrorEntries(record_log'))
                = Cardinality(C17_ErrorEntries(record_log)) + row_errors
          /\ \A i \in C26_Shadowed :
                /\ upsert_result'.inserted >= 1
                /\ \E j \in 1..Len(upsert_result'.all_records) :
                      /\ primary_key(upsert_result'.all_records[j])
                            = primary_key(source_records[i])
                      /\ upsert_result'.all_records[j].source_file = "source"
                      /\ upsert_result'.all_records[j].status = "NEW"
                /\ record_log'[Len(record_log) + i].action = "INSERT"
      ]_vars

\* a file was upserted against a ledger with a row that does not transform,
\* and its record of the same key was inserted
C26_Witness ==
    /\ pc = "pf_reconcile"
    /\ C26_BadRows # {}
    /\ C26_Shadowed # {}
    /\ upsert_result.inserted >= 1
    /\ consolidated_records = <<>>

\* C27: as long as tracker writes succeed, every file-log entry created by
\* log_file_start during a run has, when execute() returns, one of the
\* statuses COMPLETED, SCHEMA_ERROR or ERROR; none is left in PROCESSING.
C27_NoEntryLeftProcessing ==
    pc = "done" =>
        \A i \in C18_RunRows : file_log[i].status \in { "COMPLETED", "SCHEMA_ERROR", "ERROR" }

\* C28: a file whose processing fails after lifecycle.move_to_in_process has
\* succeeded is, in that run, neither moved to the backup folder nor moved
\* back to the source folder: it stays in the in-process folder.
C28_FailedFileStaysInProcess ==
    /\ [](\A i \in 1..Len(outcome) :
             outcome[i] \in { "failed", "escaped" } => file_loc[i] \in { "source", "in_process" })
    /\ []((pc = "pf_except" /\ file_log_id # 0) => file_loc[idx] = "in_process")
    /\ [][ \A i \in 1..Len(file_loc) :
             file_loc[i] = "in_process" => file_loc'[i] \in { "in_process", "backup" } ]_vars

\* names of the first n listed files whose processing failed, in order
RECURSIVE C29_FailedNames(_)
C29_FailedNames(n) ==
    IF n = 0 THEN <<>>
    ELSE C29_FailedNames(n - 1)
           \o (IF outcome[n] \in { "failed", "escaped" } THEN << source_files[n].name >> ELSE <<>>)

\* C29: in every reachable state of a run, report.files_with_errors holds at
\* most one entry per source file processed so far and none for a file that
\* was skipped by the idempotency check or logged COMPLETED, so its length
\* never exceeds the number of listed source files.
C29_OneErrorEntryPerFailedFile ==
    /\ report.files_with_errors = C29_FailedNames(Len(outcome))
    /\ Len(report.files_with_errors) <= Len(source_files)
    /\ Len(report.files_with_errors) <= idx
    /\ \A i \in 1..Len(outcome) :
          outcome[i] \in { "failed", "escaped" } =>
              /\ i <= idx
              /\ (\A k \in 1..Len(source_files) : k # i => source_files[k] # source_files[i])
                    => \A j \in C18_RunRows :
                          (file_log[j].file_name = source_files[i].name
                             /\ file_log[j].file_modified_time = source_files[i].modified_time)
                          => file_log[j].status # "COMPLETED"

\* the run ended after a skipped file and a failed file of the same name:
\* one entry, for the failed one
C29_Witness ==
    /\ pc = "done"
    /\ Len(source_files) = 2
    /\ outcome = << "skipped", "failed" >>
    /\ source_files[1].name = source_files[2].name
    /\ report.files_with_errors = << source_files[2].name >>

C30_AllSkipped ==
    /\ source_files # <<>>
    /\ \A i \in 1..Len(source_files) : outcome[i] = "skipped"

\* C30: when every listed source file is skipped by the idempotency check,
\* the run still takes the ledger backup, writes nothing to the ledger,
\* reports zero inserted, updated and unchanged records and ends with status
\* SUCCESS: a skipped file counts as a file that did not fail.
C30_AllSkippedRunIsSuccess ==
    /\ [](C30_AllSkipped =>
            /\ backup_ok
            /\ ledger = backup_copy
            /\ local_consolidated = <<>>
            /\ report.inserted_count = 0
            /\ report.updated_count = 0
            /\ report.unchanged_count = 0
            /\ report.files_with_errors = <<>>
            /\ C18_RunRows = {}
            /\ record_log = <<>>
            /\ pc \in { "loop", "finish", "done" }
            /\ pc \in { "finish", "done" } => report.status = "SUCCESS"
            /\ pc = "done" => notifications = << "SUCCESS" >>)
    /\ [][ outcome' # outcome /\ (\E i \in 1..Len(outcome) : outcome'[i] = "skipped" /\ outcome[i] # "skipped")
             => UNCHANGED << ledger, local_consolidated, report, file_log, record_log, file_loc >>
       ]_vars

\* a run whose two listed files were both skipped has ended SUCCESS
C30_Witness ==
    /\ pc = "done"
    /\ Len(source_files) = 2
    /\ C30_AllSkipped
    /\ report.status = "SUCCESS"
    /\ report.total_files = 2

====
